---- MODULE Spec2Model ----
(***************************************************************************)
(* A model of jfromaniello/hono_sessions:                                  *)
(*   - store/CookieStore.ts      (src/unnamed/part_002)                    *)
(*   - store/CloudflareKVStore.ts (src/unnamed/part_004)                   *)
(*   - ContextStore.ts           (src/src/ContextStore.ts)                 *)
(*   - Session.ts, Middleware.ts and Crypto.ts are not part of the source  *)
(*     tree at hand; what the model needs of them is taken from the        *)
(*     specification and marked as such.                                   *)
(*                                                                         *)
(* JavaScript strings are sequences of characters; a character is a TLA+   *)
(* string naming one Unicode code point ("a", "U+00E9", ...).              *)
(***************************************************************************)
EXTENDS Integers, Sequences, FiniteSets, TLC

(***************************************************************************)
(* Bounds of the model.                                                    *)
(***************************************************************************)
\* CHUNK_SIZE is 4000 in the source (part_002:120).  The model scales it down
\* so that payloads of 1..11 chunks stay enumerable; every formula below is
\* stated in terms of CHUNK_SIZE, never of its value.
CHUNK_SIZE == 8
\* longest padding value of a session (characters)
MaxPad == 72

\* the clock runs from 0 to MaxTicks * TimeStep milliseconds
MaxTicks == 2

\* milliseconds between two readings of the clock
TimeStep == 500

\* the number of indexed cookies the store clears and the most it writes
MAX_COOKIES == 10

\* how many cookies of a request may differ from what the store wrote
MaxTamper == 1

\* chunkStringByBytes on its own: the longest input of mixed characters, the
\* longest input of single-byte characters, and the largest maxBytes
MaxChunkLen == 4
MaxRun == 12
MaxBytes == 5

(***************************************************************************)
(* Characters and their UTF-8 width: encoder.encode(char).length           *)
(***************************************************************************)
TwoByteChar   == "U+00E9"
ThreeByteChar == "U+20AC"
FourByteChar  == "U+1F600"

UTF8Len(char) ==
  IF char = TwoByteChar THEN 2
  ELSE IF char = ThreeByteChar THEN 3
  ELSE IF char = FourByteChar THEN 4
  ELSE 1

RECURSIVE ByteLength(_)
\* the number of bytes of the UTF-8 encoding of s (summed by halves)
ByteLength(s) ==
  IF s = <<>> THEN 0
  ELSE IF Len(s) = 1 THEN UTF8Len(s[1])
  ELSE LET h == Len(s) \div 2
       IN ByteLength(SubSeq(s, 1, h)) + ByteLength(SubSeq(s, h + 1, Len(s)))

RECURSIVE Concat(_)
\* chunks.join(""): concatenation of a sequence of strings
Concat(chunks) == IF chunks = <<>> THEN <<>> ELSE Head(chunks) \o Concat(Tail(chunks))

(***************************************************************************)
(* chunkStringByBytes(input, maxBytes), the loop of part_002:19-29 and the *)
(* trailing push of part_002:31-33.                                        *)
(* The loop is taken chunk by chunk: Fill runs the iterations that extend  *)
(* the current chunk (the else branch), ChunkLoop the iteration that closes *)
(* it and starts the next one with the character that did not fit.         *)
(***************************************************************************)
RECURSIVE Fill_ByChars(_, _, _, _, _)
\* the chunk measured in characters instead of bytes
Fill_ByChars(input, i, current, currentBytes, maxBytes) ==
  IF i > Len(input) \/ Len(current) + 1 > maxBytes
  THEN [i |-> i, current |-> current, currentBytes |-> currentBytes]
  ELSE Fill_ByChars(input, i + 1, Append(current, input[i]),
                    currentBytes + UTF8Len(input[i]), maxBytes)

RECURSIVE Fill_Strict(_, _, _, _, _)
\* the chunk closed already when it would be exactly full
Fill_Strict(input, i, current, currentBytes, maxBytes) ==
  IF i > Len(input) \/ currentBytes + UTF8Len(input[i]) >= maxBytes
  THEN [i |-> i, current |-> current, currentBytes |-> currentBytes]
  ELSE Fill_Strict(input, i + 1, Append(current, input[i]),
                   currentBytes + UTF8Len(input[i]), maxBytes)

RECURSIVE Fill(_, _, _, _, _)
\* the iterations from character i on that add to current: [i, current, currentBytes]
Fill(input, i, current, currentBytes, maxBytes) ==
  IF i > Len(input) \/ currentBytes + UTF8Len(input[i]) > maxBytes
  THEN [i |-> i, current |-> current, currentBytes |-> currentBytes]
  ELSE Fill(input, i + 1, Append(current, input[i]),
            currentBytes + UTF8Len(input[i]), maxBytes)

RECURSIVE ChunkLoop(_, _, _, _, _, _)
ChunkLoop(input, i, chunks, current, currentBytes, maxBytes) ==
  LET f == Fill(input, i, current, currentBytes, maxBytes)
  IN IF f.i > Len(input)
     THEN IF f.current # <<>> THEN Append(chunks, f.current) ELSE chunks
     ELSE LET char == input[f.i]
              charBytes == UTF8Len(char)
          IN ChunkLoop(input, f.i + 1, Append(chunks, f.current), <<char>>, charBytes,
                       maxBytes)

RECURSIVE ChunkLoopNoTail(_, _, _, _, _, _)
ChunkLoopNoTail(input, i, chunks, current, currentBytes, maxBytes) ==
  LET f == Fill(input, i, current, currentBytes, maxBytes)
  IN IF f.i > Len(input) THEN chunks
     ELSE LET char == input[f.i]
              charBytes == UTF8Len(char)
          IN ChunkLoopNoTail(input, f.i + 1, Append(chunks, f.current), <<char>>,
                             charBytes, maxBytes)

\* chunkStringByBytes without the push of the last chunk (part_002:31-33)
chunkStringByBytes_NoTail(input, maxBytes) ==
  ChunkLoopNoTail(input, 1, <<>>, <<>>, 0, maxBytes)

chunkStringByBytes(input, maxBytes) == ChunkLoop(input, 1, <<>>, <<>>, 0, maxBytes)

(***************************************************************************)
(* Number <-> decimal string: String(n) and parseInt(s, 10).               *)
(***************************************************************************)
Digits == <<"0", "1", "2", "3", "4", "5", "6", "7", "8", "9">>
DigitChars == {Digits[i] : i \in 1..10}
DigitVal(ch) == (CHOOSE i \in 1..10 : Digits[i] = ch) - 1

RECURSIVE NumberToString(_)
\* String(n) for a non-negative integer n
NumberToString(n) ==
  IF n < 10 THEN <<Digits[n + 1]>>
  ELSE NumberToString(n \div 10) \o <<Digits[(n % 10) + 1]>>

RECURSIVE SkipWhite(_, _)
SkipWhite(s, i) == IF i <= Len(s) /\ s[i] = " " THEN SkipWhite(s, i + 1) ELSE i

RECURSIVE DigitPrefix(_, _, _)
\* the value of the longest run of digits of s starting at i; -1 when none
DigitPrefix(s, i, acc) ==
  IF i <= Len(s) /\ s[i] \in DigitChars
  THEN DigitPrefix(s, i + 1, (IF acc < 0 THEN 0 ELSE acc) * 10 + DigitVal(s[i]))
  ELSE acc

\* parseInt(s, 10): leading white space, an optional sign, then the longest
\* prefix of digits; whatever follows is ignored; NaN when there is no digit.
parseInt(s) ==
  LET i    == SkipWhite(s, 1)
      neg  == i <= Len(s) /\ s[i] = "-"
      j    == IF i <= Len(s) /\ s[i] \in {"-", "+"} THEN i + 1 ELSE i
      v    == DigitPrefix(s, j, -1)
  IN IF v < 0 THEN [nan |-> TRUE, val |-> 0]
     ELSE [nan |-> FALSE, val |-> IF neg THEN 0 - v ELSE v]

(***************************************************************************)
(* SessionData and its JSON text.                                          *)
(*                                                                         *)
(* SessionData = [_data, _expire, _delete, _accessed]; _data maps a subset *)
(* of KeyNames to [value, flash]; a value is a string; _expire and         *)
(* _accessed are Null or an ISO timestamp.  JSON.stringify writes the      *)
(* members in order and JSON.parse reads them back, throwing on any text   *)
(* that is not of this form.  Punctuation and member names are one         *)
(* character each in the model.                                            *)
(***************************************************************************)
Null == "null"
Times == {i * TimeStep : i \in 0..MaxTicks}
\* Date.prototype.toISOString of the instant ms milliseconds after the epoch
toISOString(ms) == "T" \o ToString(ms)
IsoStrings == {toISOString(ms) : ms \in Times}
KeyNames == <<"k", "m">>
KeySet == {KeyNames[i] : i \in 1..Len(KeyNames)}
ValueChars == {"a", TwoByteChar, ThreeByteChar, FourByteChar}

EmptyData == [x \in {} |-> [value |-> <<>>, flash |-> FALSE]]

BoolTok(b) == IF b THEN <<"t">> ELSE <<"f">>
TimeTok(t) == IF t = Null THEN <<"n">> ELSE <<"@", t>>

RECURSIVE DataStr(_, _)
DataStr(d, i) ==
  IF i > Len(KeyNames) THEN <<>>
  ELSE LET k == KeyNames[i]
       IN (IF k \in DOMAIN d
           THEN <<k, "'">> \o d[k].value \o <<"'">> \o BoolTok(d[k].flash)
           ELSE <<>>) \o DataStr(d, i + 1)

JSON_stringify(sd) ==
  <<"{">> \o DataStr(sd._data, 1) \o <<"}">>
    \o TimeTok(sd._expire) \o BoolTok(sd._delete) \o TimeTok(sd._accessed)

\* the index of the quote closing the value that starts at i; 0 when there is
\* none, or when a character before it cannot be part of a value
ScanValue(s, i) ==
  LET quotes == {j \in i..Len(s) : s[j] = "'"}
  IN IF quotes = {} THEN 0
     ELSE LET q == CHOOSE j \in quotes : \A k \in quotes : j <= k
          IN IF \A k \in i..(q - 1) : s[k] \in ValueChars THEN q ELSE 0

RECURSIVE ParseEntries(_, _, _)
\* the members of _data from position i on: [ok, pos, data]
ParseEntries(s, i, acc) ==
  IF i > Len(s) THEN [ok |-> FALSE, pos |-> i, data |-> acc]
  ELSE IF s[i] = "}" THEN [ok |-> TRUE, pos |-> i + 1, data |-> acc]
  ELSE IF s[i] \in KeySet /\ i + 1 <= Len(s) /\ s[i + 1] = "'"
  THEN LET q == ScanValue(s, i + 2)
       IN IF q = 0 \/ q + 1 > Len(s) \/ s[q + 1] \notin {"t", "f"}
          THEN [ok |-> FALSE, pos |-> i, data |-> acc]
          ELSE LET e == [value |-> SubSeq(s, i + 2, q - 1), flash |-> s[q + 1] = "t"]
               IN ParseEntries(s, q + 2,
                    [x \in DOMAIN acc \cup {s[i]} |-> IF x = s[i] THEN e ELSE acc[x]])
  ELSE [ok |-> FALSE, pos |-> i, data |-> acc]

\* a timestamp member at position i: [ok, pos, t]
ParseTime(s, i) ==
  IF i <= Len(s) /\ s[i] = "n" THEN [ok |-> TRUE, pos |-> i + 1, t |-> Null]
  ELSE IF i + 1 <= Len(s) /\ s[i] = "@" THEN [ok |-> TRUE, pos |-> i + 2, t |-> s[i + 1]]
  ELSE [ok |-> FALSE, pos |-> i, t |-> Null]

NoSession == [_data |-> EmptyData, _expire |-> Null, _delete |-> FALSE, _accessed |-> Null]

\* JSON.parse(text): [ok, value]; ok = FALSE models the SyntaxError it throws
JSON_parse(s) ==
  LET bad == [ok |-> FALSE, value |-> NoSession]
  IN IF Len(s) < 1 \/ s[1] # "{" THEN bad
     ELSE LET d == ParseEntries(s, 2, EmptyData)
          IN IF ~d.ok THEN bad
             ELSE LET e == ParseTime(s, d.pos)
                  IN IF ~e.ok \/ e.pos > Len(s) \/ s[e.pos] \notin {"t", "f"} THEN bad
                     ELSE LET a == ParseTime(s, e.pos + 1)
                          IN IF ~a.ok \/ a.pos # Len(s) + 1 THEN bad
                             ELSE [ok |-> TRUE,
                                   value |-> [_data |-> d.data, _expire |-> e.t,
                                              _delete |-> s[e.pos] = "t",
                                              _accessed |-> a.t]]

(***************************************************************************)
(* Crypto.ts: encrypt(key, plaintext) / decrypt(key, ciphertext).          *)
(* The ciphertext is ASCII: a header naming the key, one character per     *)
(* plaintext byte, and a trailing authentication tag.  decrypt throws on   *)
(* any string that is not a whole ciphertext made under the same key.      *)
(***************************************************************************)
CipherOf(ch) == "~" \o ch
PlainChars == KeySet \cup ValueChars \cup DigitChars \cup IsoStrings
                \cup {"{", "}", "'", "t", "f", "n", "@", "x", " ", "-", "."}
CipherHeader(key) == "H:" \o key
CipherTag == "MAC"

Repeat(ch, n) == [i \in 1..n |-> ch]

RECURSIVE EncBody(_)
\* one ciphertext character per byte of each plaintext character (by halves)
EncBody(s) ==
  IF s = <<>> THEN <<>>
  ELSE IF Len(s) = 1 THEN Repeat(CipherOf(s[1]), UTF8Len(s[1]))
  ELSE LET h == Len(s) \div 2
       IN EncBody(SubSeq(s, 1, h)) \o EncBody(SubSeq(s, h + 1, Len(s)))

encrypt(key, plaintext) == <<CipherHeader(key)>> \o EncBody(plaintext) \o <<CipherTag>>

\* the plaintext character a ciphertext character stands for a byte of
IsCipherChar(a) == \E ch \in PlainChars : CipherOf(ch) = a
PlainOf(a) == CHOOSE ch \in PlainChars : CipherOf(ch) = a

\* the plaintext of the body characters c[2..Len(c)-1]: [ok, value].  A run of
\* equal ciphertext characters stands for as many plaintext characters as
\* the width of the character divides it into.
DecBody(c) ==
  LET body == 2..(Len(c) - 1)
      RunStart(j) == CHOOSE r \in 2..j :
                       /\ \A k \in r..j : c[k] = c[j]
                       /\ (r = 2 \/ c[r - 1] # c[j])
      RunEnd(j) == CHOOSE r \in j..(Len(c) - 1) :
                     /\ \A k \in j..r : c[k] = c[j]
                     /\ (r = Len(c) - 1 \/ c[r + 1] # c[j])
      Whole(j) == (RunEnd(j) - RunStart(j) + 1) % UTF8Len(PlainOf(c[j])) = 0
      starts == {j \in body : (j - RunStart(j)) % UTF8Len(PlainOf(c[j])) = 0}
      Nth(n) == CHOOSE j \in starts : Cardinality({k \in starts : k <= j}) = n
  IN IF \A j \in body : IsCipherChar(c[j]) /\ Whole(j)
     THEN [ok |-> TRUE, value |-> [n \in 1..Cardinality(starts) |-> PlainOf(c[Nth(n)])]]
     ELSE [ok |-> FALSE, value |-> <<>>]

\* decrypt(key, ciphertext): [ok, value]; ok = FALSE models the rejection
decrypt(key, c) ==
  IF Len(c) >= 2 /\ c[1] = CipherHeader(key) /\ c[Len(c)] = CipherTag
  THEN DecBody(c)
  ELSE [ok |-> FALSE, value |-> <<>>]

(***************************************************************************)
(* The state.                                                              *)
(***************************************************************************)
VARIABLES
  \* ---- CookieStore and the client it talks to
  encryptionKey,   \* this.encryptionKey: Null or a key
  cookieOptions,   \* this.cookieOptions
  jar,             \* the client's cookies: name -> value, for the cookies it holds
  resp,            \* the Set-Cookie writes of the response being built, in order
  cpend,           \* the persistSessionData suspended at "await encrypt", if any
  cres,            \* what the last cookie store operation did
  hist,            \* the last two writing operations whose response the client applied,
                   \* with the session of a persistSessionData
  tampers,         \* how often the client's cookies were altered since then
  \* ---- CloudflareKVStore, the requests that call it and the backend
  kv,              \* the backend: key -> [value, expirationTtl, expiration], for the keys it holds
  now,             \* the clock, in milliseconds
  als,             \* asyncLocalStore: the context bound in the scope of each request
  req,             \* per request: the store operation it is in, or the outcome of its last one
  lastMod,         \* per key: the operation that put the record the backend holds, and
                   \* the session it was called with (but for its _accessed)
  tomb,            \* per session id: whether a persistSessionData with delete = true has completed
  \* ---- Session and the middleware around the handler
  stored,          \* the SessionData the store holds between requests, Null if none
  cache,           \* the Session's copy of it during a request
  phase,           \* "between" requests, or "handling" one
  dirty,           \* whether the Session was changed during this request
  got,             \* what the last get of this request found and returned
  flashes,         \* per flashed value: how far it has come (see Unused)
  \* ---- chunkStringByBytes called on its own
  chunkInput,      \* input
  chunkMax,        \* maxBytes
  chunkOut         \* the call's result, once it has returned

cookieVars == <<encryptionKey, cookieOptions, jar, resp, cpend, cres, hist, tampers>>
kvVars == <<kv, now, als, req, lastMod, tomb>>
sessionVars == <<stored, cache, phase, dirty, got, flashes>>
chunkVars == <<chunkInput, chunkMax, chunkOut>>
vars == <<cookieVars, kvVars, sessionVars, chunkVars>>

(***************************************************************************)
(* CookieStore (part_002:49-153).                                          *)
(***************************************************************************)
\* options?.sessionCookieName || "session"
sessionCookieName == "session"

\* the first chunk named with its index too
getCookieName_Indexed(name, index) == name \o "_" \o ToString(index)
getCookieName(name, index) ==
  IF index = 0 THEN name ELSE name \o "_" \o ToString(index)

CountName == sessionCookieName \o "_count"
ChunkNames == {getCookieName(sessionCookieName, i) : i \in 0..(MAX_COOKIES - 1)}

\* getCookie(c, name): the value of the request cookie, if the request has it
getCookie(cookies, name) ==
  IF name \in DOMAIN cookies
  THEN [defined |-> TRUE, value |-> cookies[name]]
  ELSE [defined |-> FALSE, value |-> <<>>]

\* !v for the result of getCookie: undefined and "" are falsy
Falsy(v) == ~v.defined \/ v.value = <<>>

\* setCookie(c, name, value, options): one more Set-Cookie header
setCookie(writes, name, value, options) ==
  Append(writes, [name |-> name, value |-> value, options |-> options])

\* { ...this.cookieOptions, maxAge: 0 }
WithMaxAgeZero(options) == [options EXCEPT !.maxAge = {0}]

\* what a client does with one Set-Cookie: Max-Age=0 removes the cookie, and
\* anything else stores the value, the empty value included
ApplyWrite(cookies, w) ==
  IF 0 \in w.options.maxAge
  THEN [n \in DOMAIN cookies \ {w.name} |-> cookies[n]]
  ELSE [n \in DOMAIN cookies \cup {w.name} |-> IF n = w.name THEN w.value ELSE cookies[n]]

RECURSIVE ApplyWrites(_, _)
ApplyWrites(cookies, writes) ==
  IF writes = <<>> THEN cookies
  ELSE ApplyWrites(ApplyWrite(cookies, Head(writes)), Tail(writes))

\* ---- getSession (part_002:60-98)
RECURSIVE ReadChunks_Skip(_, _, _, _, _)
\* the loop going on past a chunk that is not there
ReadChunks_Skip(cookies, i, cookieCount, sessionCookie, reads) ==
  IF i >= cookieCount THEN [sessionCookie |-> sessionCookie, reads |-> reads]
  ELSE LET name  == getCookieName(sessionCookieName, i)
           chunk == getCookie(cookies, name)
       IN ReadChunks_Skip(cookies, i + 1, cookieCount,
                          sessionCookie \o chunk.value, Append(reads, name))

RECURSIVE ReadChunks(_, _, _, _, _)
\* the loop of part_002:69-75: [sessionCookie, reads]
ReadChunks(cookies, i, cookieCount, sessionCookie, reads) ==
  IF i >= cookieCount THEN [sessionCookie |-> sessionCookie, reads |-> reads]
  ELSE LET name  == getCookieName(sessionCookieName, i)
           chunk == getCookie(cookies, name)
       IN IF Falsy(chunk)
          THEN [sessionCookie |-> sessionCookie, reads |-> Append(reads, name)]
          ELSE ReadChunks(cookies, i + 1, cookieCount,
                          sessionCookie \o chunk.value, Append(reads, name))

\* cookieCount of part_002:63-64
CookieCount(cookies) ==
  LET countRaw == getCookie(cookies, CountName)
  IN IF Falsy(countRaw) THEN [nan |-> FALSE, val |-> 1] ELSE parseInt(countRaw.value)

NoResult == [op |-> "none", kind |-> "none", value |-> NoSession, error |-> "",
             input |-> NoSession, reads |-> <<>>, decryptArg |-> <<>>,
             decryptCalled |-> FALSE, late |-> "none"]

\* DecodeSession with the rejection of decrypt not caught
DecodeSession_NoCatch(key, sessionCookie, read) ==
  IF key # Null /\ sessionCookie # <<>>
  THEN LET session_data_raw == decrypt(key, sessionCookie)
           tried == [read EXCEPT !.decryptCalled = TRUE, !.decryptArg = sessionCookie]
       IN IF ~session_data_raw.ok
          THEN [tried EXCEPT !.kind = "throw", !.error = "decrypt"]
          ELSE LET session_data == JSON_parse(session_data_raw.value)
               IN IF ~session_data.ok
                  THEN [tried EXCEPT !.kind = "throw", !.error = "SyntaxError"]
                  ELSE [tried EXCEPT !.kind = "session", !.value = session_data.value]
  ELSE [read EXCEPT !.kind = "null"]

\* DecodeSession reading the cookie as plain JSON when there is no key
DecodeSession_Plain(key, sessionCookie, read) ==
  IF sessionCookie # <<>>
  THEN LET session_data_raw == IF key # Null THEN decrypt(key, sessionCookie)
                               ELSE [ok |-> TRUE, value |-> sessionCookie]
           tried == [read EXCEPT !.decryptCalled = key # Null,
                                 !.decryptArg = sessionCookie]
       IN IF ~session_data_raw.ok THEN [tried EXCEPT !.kind = "null"]
          ELSE LET session_data == JSON_parse(session_data_raw.value)
               IN IF ~session_data.ok THEN [tried EXCEPT !.kind = "null"]
                  ELSE [tried EXCEPT !.kind = "session", !.value = session_data.value]
  ELSE [read EXCEPT !.kind = "null"]

\* part_002:77-97: what getSession makes of the concatenated cookie string
DecodeSession(key, sessionCookie, read) ==
  IF key # Null /\ sessionCookie # <<>>
  THEN LET session_data_raw == decrypt(key, sessionCookie)
           tried == [read EXCEPT !.decryptCalled = TRUE, !.decryptArg = sessionCookie]
       IN IF ~session_data_raw.ok THEN [tried EXCEPT !.kind = "null"]
          ELSE LET session_data == JSON_parse(session_data_raw.value)
               IN IF ~session_data.ok THEN [tried EXCEPT !.kind = "null"]
                  ELSE [tried EXCEPT !.kind = "session", !.value = session_data.value]
  ELSE [read EXCEPT !.kind = "null"]

InvalidCount == "Invalid session cookie count"

getSession(key, cookies) ==
  LET cookieCount == CookieCount(cookies)
      base == [NoResult EXCEPT !.op = "getSession"]
  IN IF cookieCount.nan \/ cookieCount.val < 1
     THEN [base EXCEPT !.kind = "throw", !.error = InvalidCount]
     ELSE LET r == ReadChunks(cookies, 0, cookieCount.val, <<>>, <<>>)
          IN DecodeSession(key, r.sessionCookie, [base EXCEPT !.reads = r.reads])

\* ---- deleteSession (part_002:104-112) and the clean-up of part_002:124-130
\* the clean-up loop left out
ClearChunks_None(writes, i, options) == writes

RECURSIVE ClearChunks(_, _, _)
ClearChunks(writes, i, options) ==
  IF i >= MAX_COOKIES THEN writes
  ELSE ClearChunks(setCookie(writes, getCookieName(sessionCookieName, i), <<>>,
                             WithMaxAgeZero(options)),
                   i + 1, options)

\* the clean-up without the write of the count cookie
ClearAll_NoCount(writes, options) == ClearChunks(writes, 0, options)

ClearAll(writes, options) ==
  setCookie(ClearChunks(writes, 0, options), CountName, <<>>, options)

\* ---- persistSessionData (part_002:114-152)
\* part_002:115-118
Payload(key, session_data) ==
  IF key # Null THEN encrypt(key, JSON_stringify(session_data))
  ELSE JSON_stringify(session_data)

RECURSIVE WriteChunks_FromOne(_, _, _, _)
\* the loop naming the cookie of chunk i by i + 1
WriteChunks_FromOne(writes, splitPayload, i, options) ==
  IF i >= Len(splitPayload) THEN writes
  ELSE WriteChunks_FromOne(setCookie(writes, getCookieName(sessionCookieName, i + 1),
                                     splitPayload[i + 1], options),
                           splitPayload, i + 1, options)

RECURSIVE WriteChunks(_, _, _, _)
\* the loop of part_002:137-144
WriteChunks(writes, splitPayload, i, options) ==
  IF i >= Len(splitPayload) THEN writes
  ELSE WriteChunks(setCookie(writes, getCookieName(sessionCookieName, i),
                             splitPayload[i + 1], options),
                   splitPayload, i + 1, options)

TooLarge == "Session too large for cookie storage"

\* PersistBody refusing MAX_COOKIES chunks already
PersistBody_OffByOne(writes, payload, options) ==
  LET splitPayload == chunkStringByBytes(payload, CHUNK_SIZE)
      cleaned == ClearAll(writes, options)
  IN IF Len(splitPayload) = 1
     THEN [kind |-> "ok", error |-> "",
           writes |-> setCookie(cleaned, sessionCookieName, splitPayload[1], options)]
     ELSE IF Len(splitPayload) >= MAX_COOKIES
     THEN [kind |-> "throw", error |-> TooLarge, writes |-> cleaned]
     ELSE IF Len(splitPayload) > 1
     THEN [kind |-> "ok", error |-> "",
           writes |-> setCookie(WriteChunks(cleaned, splitPayload, 0, options),
                                CountName, NumberToString(Len(splitPayload)), options)]
     ELSE [kind |-> "ok", error |-> "", writes |-> cleaned]

\* PersistBody refusing an oversized payload before it clears anything
PersistBody_CheckFirst(writes, payload, options) ==
  LET splitPayload == chunkStringByBytes(payload, CHUNK_SIZE)
      cleaned == ClearAll(writes, options)
  IN IF Len(splitPayload) > MAX_COOKIES
     THEN [kind |-> "throw", error |-> TooLarge, writes |-> writes]
     ELSE IF Len(splitPayload) = 1
     THEN [kind |-> "ok", error |-> "",
           writes |-> setCookie(cleaned, sessionCookieName, splitPayload[1], options)]
     ELSE IF Len(splitPayload) > 1
     THEN [kind |-> "ok", error |-> "",
           writes |-> setCookie(WriteChunks(cleaned, splitPayload, 0, options),
                                CountName, NumberToString(Len(splitPayload)), options)]
     ELSE [kind |-> "ok", error |-> "", writes |-> cleaned]

\* part_002:120-151 on the payload: [kind, error, writes]
PersistBody(writes, payload, options) ==
  LET splitPayload == chunkStringByBytes(payload, CHUNK_SIZE)
      cleaned == ClearAll(writes, options)
  IN IF Len(splitPayload) = 1
     THEN [kind |-> "ok", error |-> "",
           writes |-> setCookie(cleaned, sessionCookieName, splitPayload[1], options)]
     ELSE IF Len(splitPayload) > MAX_COOKIES
     THEN [kind |-> "throw", error |-> TooLarge,
           writes |-> cleaned]
     ELSE IF Len(splitPayload) > 1
     THEN [kind |-> "ok", error |-> "",
           writes |-> setCookie(WriteChunks(cleaned, splitPayload, 0, options),
                                CountName, NumberToString(Len(splitPayload)), options)]
     ELSE [kind |-> "ok", error |-> "", writes |-> cleaned]

(***************************************************************************)
(* The sessions the callers pass to the cookie store, and the cookies a    *)
(* client may send that the store did not write.                           *)
(***************************************************************************)
TheKey == "K"

Entry(v, fl) == [value |-> v, flash |-> fl]
OneKey(k, v, fl) == [x \in {k} |-> Entry(v, fl)]
Session(d, e, del, a) == [_data |-> d, _expire |-> e, _delete |-> del, _accessed |-> a]
PadSession(p) == Session(OneKey("k", Repeat("a", p), FALSE), Null, FALSE, Null)

\* padding lengths: one for every number of chunks, and those that put the
\* payload at and just over MAX_COOKIES * CHUNK_SIZE bytes, with and without a key
PadLens ==
  {p \in 0..MaxPad :
     \/ p % (2 * CHUNK_SIZE) = 0
     \/ \E key \in {Null, TheKey} :
          ByteLength(Payload(key, PadSession(p))) - MAX_COOKIES * CHUNK_SIZE \in {0, 1}}

SmallSessions ==
  { NoSession,
    Session(EmptyData, Null, TRUE, Null),
    Session(OneKey("k", <<"a">>, FALSE), Null, TRUE, toISOString(TimeStep)),
    Session(OneKey("k", Repeat("a", CHUNK_SIZE), FALSE), Null, TRUE, Null),
    Session(OneKey("m", <<"a", "a">>, TRUE), toISOString(2 * TimeStep), FALSE, Null),
    Session([x \in {"k", "m"} |-> Entry(<<"a">>, x = "m")], Null, FALSE, toISOString(0)),
    Session(OneKey("k", <<TwoByteChar, "a", FourByteChar, ThreeByteChar>>, FALSE),
            Null, FALSE, Null) }

CookieSessions == {PadSession(p) : p \in PadLens} \cup SmallSessions

\* the configured cookie options; maxAge is the set holding the Max-Age, if any
CookieOptionChoices ==
  { [path |-> "/", httpOnly |-> TRUE, maxAge |-> {}],
    [path |-> "/", httpOnly |-> TRUE, maxAge |-> {3600}] }

\* values of N_count the store never writes
CountTamper ==
  { <<"x">>, <<"0">>, <<"-", "1">>, <<"2", "x">>, <<"1", ".", "5">>,
    <<"2">>, <<"3">>, <<" ">> }
\* values of a chunk cookie the store never writes: not a ciphertext, and the
\* ciphertext of a text that is not JSON
ChunkTamper == { <<"x">>, encrypt(TheKey, <<"x">>), <<CipherHeader(TheKey)>> }
TamperNames == {CountName, getCookieName(sessionCookieName, 0),
                getCookieName(sessionCookieName, 1)}
TamperValues(name) == IF name = CountName THEN CountTamper ELSE ChunkTamper

(***************************************************************************)
(* The cookie store's operations as steps.  A request calls one writing     *)
(* operation; the writing operations never read the request's cookies, so   *)
(* they are taken on the cookies the store wrote itself.                    *)
(***************************************************************************)
NotPending == [active |-> FALSE, detached |-> FALSE, data |-> NoSession]

\* the record of a writing operation in hist
Done(op, kind, data) == [op |-> op, kind |-> kind, data |-> data]
Remember(h, e) == IF h = <<>> THEN <<e>> ELSE <<h[Len(h)], e>>
\* the older of the two is forgotten when the next writing operation begins
Forget(h) == IF h = <<>> THEN <<>> ELSE <<h[Len(h)]>>

CookieInit ==
  /\ encryptionKey \in {Null, TheKey}
  /\ cookieOptions \in CookieOptionChoices
  /\ jar = [n \in {} |-> <<>>]
  /\ resp = <<>>
  /\ cpend = NotPending
  /\ cres = NoResult
  /\ hist = <<>>
  /\ tampers = 0

\* persistSessionData(c, session_data), up to "await encrypt" when there is a
\* key, and to its end when there is none
PersistCall(session_data) ==
  /\ ~cpend.active
  /\ resp = <<>>
  /\ tampers = 0
  /\ IF encryptionKey # Null
     THEN /\ cpend' = [active |-> TRUE, detached |-> FALSE, data |-> session_data]
          /\ cres' = [NoResult EXCEPT !.op = "persistSessionData", !.kind = "pending",
                                      !.input = session_data]
          /\ UNCHANGED resp
     ELSE LET r == PersistBody(resp, Payload(encryptionKey, session_data), cookieOptions)
          IN /\ resp' = r.writes
             /\ cres' = [NoResult EXCEPT !.op = "persistSessionData", !.kind = r.kind,
                                         !.error = r.error, !.input = session_data]
             /\ UNCHANGED cpend
  /\ hist' = Forget(hist)
  /\ UNCHANGED <<kvVars, sessionVars, chunkVars>>
  /\ UNCHANGED <<encryptionKey, cookieOptions, jar, tampers>>

\* the rest of persistSessionData once encrypt has resolved
PersistResume ==
  /\ cpend.active
  /\ LET r == PersistBody(resp, Payload(encryptionKey, cpend.data), cookieOptions)
     IN /\ resp' = r.writes
        /\ cres' = IF cpend.detached
                   THEN [cres EXCEPT !.late = r.kind]
                   ELSE [cres EXCEPT !.kind = r.kind, !.error = r.error]
  /\ cpend' = NotPending
  /\ UNCHANGED <<kvVars, sessionVars, chunkVars>>
  /\ UNCHANGED <<encryptionKey, cookieOptions, jar, hist, tampers>>

\* createSession(c, initial_data) (part_002:100-102): persistSessionData is
\* called and its promise dropped; createSession's own promise resolves
CreateCall(initial_data) ==
  /\ ~cpend.active
  /\ resp = <<>>
  /\ tampers = 0
  /\ IF encryptionKey # Null
     THEN /\ cpend' = [active |-> TRUE, detached |-> TRUE, data |-> initial_data]
          /\ cres' = [NoResult EXCEPT !.op = "createSession", !.kind = "ok",
                                      !.input = initial_data, !.late = "pending"]
          /\ UNCHANGED resp
     ELSE LET r == PersistBody(resp, Payload(encryptionKey, initial_data), cookieOptions)
          IN /\ resp' = r.writes
             /\ cres' = [NoResult EXCEPT !.op = "createSession", !.kind = "ok",
                                         !.input = initial_data, !.late = r.kind]
             /\ UNCHANGED cpend
  /\ hist' = Forget(hist)
  /\ UNCHANGED <<kvVars, sessionVars, chunkVars>>
  /\ UNCHANGED <<encryptionKey, cookieOptions, jar, tampers>>

\* getSession(c) on the cookies the client sends
GetSession ==
  /\ ~cpend.active
  /\ resp = <<>>
  /\ cres' = getSession(encryptionKey, jar)
  /\ UNCHANGED <<kvVars, sessionVars, chunkVars>>
  /\ UNCHANGED <<encryptionKey, cookieOptions, jar, resp, cpend, hist, tampers>>

\* deleteSession(c)
DeleteSession ==
  /\ ~cpend.active
  /\ resp = <<>>
  /\ tampers = 0
  /\ resp' = ClearAll(resp, cookieOptions)
  /\ cres' = [NoResult EXCEPT !.op = "deleteSession", !.kind = "ok"]
  /\ hist' = Forget(hist)
  /\ UNCHANGED <<kvVars, sessionVars, chunkVars>>
  /\ UNCHANGED <<encryptionKey, cookieOptions, jar, cpend, tampers>>

\* the response reaches the client, which applies its Set-Cookie headers in order
Deliver ==
  /\ ~cpend.active
  /\ resp # <<>>
  /\ jar' = ApplyWrites(jar, resp)
  /\ resp' = <<>>
  /\ hist' = Remember(hist,
               IF cres.op = "persistSessionData"
               THEN Done(cres.op, cres.kind, cres.input)
               ELSE Done(cres.op, cres.late, NoSession))
  /\ tampers' = 0
  /\ cres' = NoResult
  /\ UNCHANGED <<kvVars, sessionVars, chunkVars>>
  /\ UNCHANGED <<encryptionKey, cookieOptions, cpend>>

\* a cookie of the client is replaced by a value the store did not write
TamperSet(name, value) ==
  /\ ~cpend.active
  /\ resp = <<>>
  /\ tampers < MaxTamper
  /\ jar' = [n \in DOMAIN jar \cup {name} |-> IF n = name THEN value ELSE jar[n]]
  /\ tampers' = tampers + 1
  /\ hist' = <<>>
  /\ cres' = NoResult
  /\ UNCHANGED <<kvVars, sessionVars, chunkVars>>
  /\ UNCHANGED <<encryptionKey, cookieOptions, resp, cpend>>

\* a cookie of the client is lost
TamperDrop(name) ==
  /\ ~cpend.active
  /\ resp = <<>>
  /\ tampers < MaxTamper
  /\ name \in DOMAIN jar
  /\ jar' = [n \in DOMAIN jar \ {name} |-> jar[n]]
  /\ tampers' = tampers + 1
  /\ hist' = <<>>
  /\ cres' = NoResult
  /\ UNCHANGED <<kvVars, sessionVars, chunkVars>>
  /\ UNCHANGED <<encryptionKey, cookieOptions, resp, cpend>>

\* the client discards its cookies
ClearCookies ==
  /\ ~cpend.active
  /\ resp = <<>>
  /\ jar' = [n \in {} |-> <<>>]
  /\ tampers' = 0
  /\ hist' = <<>>
  /\ cres' = NoResult
  /\ UNCHANGED <<kvVars, sessionVars, chunkVars>>
  /\ UNCHANGED <<encryptionKey, cookieOptions, resp, cpend>>

CookieNext ==
  \/ \E d \in CookieSessions : PersistCall(d)
  \/ PersistResume
  \/ \E d \in CookieSessions : CreateCall(d)
  \/ GetSession
  \/ DeleteSession
  \/ Deliver
  \/ \E n \in TamperNames : \E v \in TamperValues(n) : TamperSet(n, v)
  \/ \E n \in TamperNames : TamperDrop(n)
  \/ ClearCookies

(***************************************************************************)
(* CloudflareKVStore (part_004:36-201) over a KVNamespace (part_004:5-16). *)
(* The backend applies one get, put or delete at a time; the store never   *)
(* asks it for more than one key at once.  A record stays until it is      *)
(* deleted or overwritten: the backend's own expiry of records, which the  *)
(* options of put ask for, is not part of the repository.                  *)
(***************************************************************************)
Requests == {"r1", "r2"}
\* the ids the callers pass; "" stands for the empty and the absent id alike
SessionIds == {"", "s1", "s2"}
\* the ids the requests call the store with; the session "s2" is another
\* client's, which none of them serves
IdsOf(r) == IF r = "r1" THEN {"", "s1"} ELSE {"s1"}
\* options.kv
kvName == "MY_KV"
\* this.expirationTtl = options.expirationTtl || 86400
expirationTtl == 86400
\* this.prefix = options.prefix || "session:"
prefix == "session:"

\* every session under the key of one
getKeyFromSessionId_Shared(sessionId) == prefix \o "s2"
getKeyFromSessionId(sessionId) == prefix \o sessionId

Keys == {getKeyFromSessionId(i) : i \in SessionIds \ {""}}

NoContext == [bound |-> FALSE, req |-> "", env |-> {}]
\* the Context of request r, with the bindings of its env
ContextOf(r, env) == [bound |-> TRUE, req |-> r, env |-> env]
\* one store for the whole process: a request sees the context another one bound
getStore_Shared(r) ==
  IF \E q \in Requests \ {r} : als[q].bound
  THEN als[CHOOSE q \in Requests \ {r} : als[q].bound]
  ELSE als[r]
\* asyncLocalStore.getStore() in a continuation of request r (ContextStore.ts:5)
getStore(r) == als[r]

NoContextError == "KV namespace is not available in the current context"
NoBindingError == "KV namespace \"MY_KV\" is not available in the current context"
MissingId == "Session ID is required"
BackendError == "backend failure"

\* get kv(): [ok, error]
KvGetter(context) ==
  IF ~context.bound THEN [ok |-> FALSE, error |-> NoContextError]
  ELSE IF kvName \notin context.env THEN [ok |-> FALSE, error |-> NoBindingError]
  ELSE [ok |-> TRUE, error |-> ""]

\* console.error(msg, error)
Log(msg, error) == [msg |-> msg, error |-> error]
\* a call of the backend
Call(name, key) == [call |-> name, key |-> key]

\* new Date(iso).getTime()
getTime(iso) == CHOOSE ms \in Times : toISOString(ms) = iso

\* part_004:119-123 and 161-165: the set holding expiration, if it is defined
Expiration(sessionData) ==
  IF sessionData._expire # Null THEN {getTime(sessionData._expire) \div 1000} ELSE {}

\* expiration ? ... : ..., for a number or undefined
Truthy(expiration) == expiration # {} /\ expiration # {0}

\* part_004:126-129 and 168-171
PutOptions(expiration) ==
  [expirationTtl |-> IF Truthy(expiration) THEN {} ELSE {expirationTtl},
   expiration |-> expiration]

\* createSession stamping _accessed whatever the input carries
CreatePrepare_Always(initialData, t) == [initialData EXCEPT !._accessed = toISOString(t)]
\* part_004:111-116
CreatePrepare(initialData, t) ==
  IF initialData._accessed = Null
  THEN [initialData EXCEPT !._accessed = toISOString(t)]
  ELSE initialData

\* persistSessionData stamping _expire instead of _accessed
PersistPrepare_WrongField(sessionData, t) == [sessionData EXCEPT !._expire = toISOString(t)]
\* persistSessionData stamping _accessed only when the input has none
PersistPrepare_IfAbsent(sessionData, t) ==
  IF sessionData._accessed = Null
  THEN [sessionData EXCEPT !._accessed = toISOString(t)]
  ELSE sessionData
\* part_004:149-152
PersistPrepare(sessionData, t) == [sessionData EXCEPT !._accessed = toISOString(t)]

\* the load leaving _accessed as it was stored
LoadSession_Keep(data, t) == data
\* part_004:82-83
LoadSession(data, t) == [data EXCEPT !._accessed = toISOString(t)]

NoPut == [key |-> "", value |-> <<>>, options |-> PutOptions({})]
\* a session with its _accessed left out of account
ButAccessed(sessionData) == [sessionData EXCEPT !._accessed = Null]
NoMod == [op |-> "none", input |-> NoSession]

\* a request that is in no operation of the store and has called none
IdleReq ==
  [pc |-> "idle", op |-> "none", id |-> "", data |-> NoSession, put |-> NoPut,
   kind |-> "none", value |-> NoSession, error |-> "", logged |-> <<>>,
   issued |-> <<>>, arg |-> NoSession, readMod |-> NoMod, afterPurge |-> FALSE,
   failed |-> <<>>, resolved |-> {}, wrote |-> NoSession, overlap |-> FALSE,
   at |-> 0]

\* the operation has returned or thrown
Settled(q) == q.op # "none" /\ q.pc = "idle"

\* ---- deleteSession (part_004:181-193), up to "await this.kv.delete(key)"
DeleteIssue(context, sessionId) ==
  IF sessionId = ""
  THEN [issued |-> FALSE, error |-> MissingId, logged |-> <<>>]
  ELSE LET g == KvGetter(context)
       IN IF g.ok
          THEN [issued |-> TRUE, error |-> "", logged |-> <<>>]
          ELSE [issued |-> FALSE, error |-> g.error,
                logged |-> <<Log("Error deleting session:", g.error)>>]

\* getSessionById answering an empty id like an id that is not found
GetStart_NullOnEmpty(context, sessionId) ==
  LET c == [IdleReq EXCEPT !.op = "getSessionById", !.id = sessionId]
      g == KvGetter(context)
  IN IF sessionId = "" THEN [c EXCEPT !.kind = "null"]
     ELSE IF ~g.ok
     THEN [c EXCEPT !.kind = "null", !.resolved = {context},
                    !.logged = <<Log("Error retrieving session:", g.error)>>]
     ELSE [c EXCEPT !.pc = "get", !.resolved = {context},
                    !.issued = <<Call("get", getKeyFromSessionId(sessionId))>>]

\* ---- getSessionById (part_004:66-96), up to "await this.kv.get(...)"
GetStart(context, sessionId) ==
  LET c == [IdleReq EXCEPT !.op = "getSessionById", !.id = sessionId]
      g == KvGetter(context)
  IN IF sessionId = "" THEN [c EXCEPT !.kind = "undefined"]
     ELSE IF ~g.ok
     THEN [c EXCEPT !.kind = "null", !.resolved = {context},
                    !.logged = <<Log("Error retrieving session:", g.error)>>]
     ELSE [c EXCEPT !.pc = "get", !.resolved = {context},
                    !.issued = <<Call("get", getKeyFromSessionId(sessionId))>>]

\* getSessionById putting the record back with the _accessed of the load
GetFound_WriteBack(c, context, text, t) ==
  LET p == JSON_parse(text)
      sessionData == LoadSession(p.value, t)
      key == getKeyFromSessionId(c.id)
  IN IF ~p.ok
     THEN [c EXCEPT !.pc = "idle", !.kind = "null",
                    !.logged = <<Log("Error retrieving session:", "SyntaxError")>>]
     ELSE IF sessionData._delete
     THEN [c EXCEPT !.pc = "getDelete", !.issued = Append(@, Call("delete", key))]
     ELSE [c EXCEPT !.pc = "put", !.data = sessionData, !.value = sessionData,
                    !.put = [key |-> key, value |-> JSON_stringify(sessionData),
                             options |-> PutOptions(Expiration(sessionData))],
                    !.issued = Append(@, Call("put", key))]

\* getSessionById returning a record whatever its _delete
GetFound_ReturnFlagged(c, context, text, t) ==
  LET p == JSON_parse(text)
      sessionData == LoadSession(p.value, t)
  IN IF ~p.ok
     THEN [c EXCEPT !.pc = "idle", !.kind = "null",
                    !.logged = <<Log("Error retrieving session:", "SyntaxError")>>]
     ELSE [c EXCEPT !.pc = "idle", !.kind = "session", !.value = sessionData]

\* part_004:77-91 for the record the backend found (its JSON text)
GetFound(c, context, text, t) ==
  LET p == JSON_parse(text)
      sessionData == LoadSession(p.value, t)
      d == DeleteIssue(context, c.id)
  IN IF ~p.ok
     THEN [c EXCEPT !.pc = "idle", !.kind = "null",
                    !.logged = <<Log("Error retrieving session:", "SyntaxError")>>]
     ELSE IF sessionData._delete
     THEN IF d.issued
          THEN [c EXCEPT !.pc = "getDelete", !.data = sessionData,
                         !.resolved = @ \cup {context},
                         !.issued = @ \o <<Call("delete", getKeyFromSessionId(c.id))>>]
          ELSE [c EXCEPT !.pc = "idle", !.kind = "null",
                         !.resolved = @ \cup {context},
                         !.logged = d.logged \o <<Log("Error retrieving session:", d.error)>>]
     ELSE [c EXCEPT !.pc = "idle", !.kind = "session", !.value = sessionData]

\* ---- createSession (part_004:101-134), up to "await this.kv.put(...)"
CreateStart(context, sessionId, initialData, t) ==
  LET c == [IdleReq EXCEPT !.op = "createSession", !.id = sessionId]
      g == KvGetter(context)
      d == CreatePrepare(initialData, t)
      key == getKeyFromSessionId(sessionId)
  IN IF sessionId = "" THEN [c EXCEPT !.kind = "throw", !.error = MissingId]
     ELSE IF ~g.ok
     THEN [c EXCEPT !.kind = "throw", !.error = g.error, !.resolved = {context},
                    !.logged = <<Log("Error creating session:", g.error)>>]
     ELSE [c EXCEPT !.pc = "put", !.data = d, !.resolved = {context},
                    !.put = [key |-> key, value |-> JSON_stringify(d),
                             options |-> PutOptions(Expiration(d))],
                    !.issued = <<Call("put", key)>>]

\* persistSessionData putting a session whatever its _delete
PersistStart_PutFlagged(context, sessionId, sessionData, t) ==
  LET c == [IdleReq EXCEPT !.op = "persistSessionData", !.id = sessionId]
      g == KvGetter(context)
      d == PersistPrepare(sessionData, t)
      key == getKeyFromSessionId(sessionId)
  IN IF sessionId = "" THEN [c EXCEPT !.kind = "throw", !.error = MissingId]
     ELSE IF ~g.ok
     THEN [c EXCEPT !.kind = "throw", !.error = g.error, !.resolved = {context},
                    !.logged = <<Log("Error persisting session data:", g.error)>>]
     ELSE [c EXCEPT !.pc = "put", !.data = d, !.resolved = {context},
                    !.put = [key |-> key, value |-> JSON_stringify(d),
                             options |-> PutOptions(Expiration(d))],
                    !.issued = <<Call("put", key)>>]

\* ---- persistSessionData (part_004:139-176), up to its first await
PersistStart(context, sessionId, sessionData, t) ==
  LET c == [IdleReq EXCEPT !.op = "persistSessionData", !.id = sessionId]
      g == KvGetter(context)
      d == PersistPrepare(sessionData, t)
      del == DeleteIssue(context, sessionId)
      key == getKeyFromSessionId(sessionId)
  IN IF sessionId = "" THEN [c EXCEPT !.kind = "throw", !.error = MissingId]
     ELSE IF d._delete
     THEN IF del.issued
          THEN [c EXCEPT !.pc = "persistDelete", !.data = d, !.resolved = {context},
                         !.issued = <<Call("delete", key)>>]
          ELSE [c EXCEPT !.kind = "throw", !.error = del.error, !.resolved = {context},
                         !.logged = del.logged \o
                                    <<Log("Error persisting session data:", del.error)>>]
     ELSE IF ~g.ok
     THEN [c EXCEPT !.kind = "throw", !.error = g.error, !.resolved = {context},
                    !.logged = <<Log("Error persisting session data:", g.error)>>]
     ELSE [c EXCEPT !.pc = "put", !.data = d, !.resolved = {context},
                    !.put = [key |-> key, value |-> JSON_stringify(d),
                             options |-> PutOptions(Expiration(d))],
                    !.issued = <<Call("put", key)>>]

\* ---- deleteSession called by the request itself
DeleteStart(context, sessionId) ==
  LET c == [IdleReq EXCEPT !.op = "deleteSession", !.id = sessionId]
      del == DeleteIssue(context, sessionId)
  IN IF del.issued
     THEN [c EXCEPT !.pc = "delete", !.resolved = {context},
                    !.issued = <<Call("delete", getKeyFromSessionId(sessionId))>>]
     ELSE [c EXCEPT !.kind = "throw", !.error = del.error, !.logged = del.logged,
                    !.resolved = IF sessionId = "" THEN {} ELSE {context}]

(***************************************************************************)
(* The requests that call the keyed store.  An operation runs from its     *)
(* call to its first await in one step, and from the backend's answer to   *)
(* the next await, or to its end, in another; the backend may fail any     *)
(* call.                                                                   *)
(***************************************************************************)
\* the sessions the callers make up: for createSession one with _expire and
\* _accessed set and one marked for deletion, for persistSessionData a plain one
CreateSessions ==
  { Session(OneKey("k", <<"a">>, TRUE), toISOString(MaxTicks * TimeStep), FALSE,
            toISOString(0)),
    Session(EmptyData, toISOString(0), TRUE, Null) }
PersistSessions == { Session(OneKey("k", <<"a">>, FALSE), Null, FALSE, Null) }

\* the session request r loaded, as it is or marked for deletion by its handler
Loaded(r) ==
  IF req[r].op = "getSessionById" /\ req[r].kind = "session"
  THEN {req[r].value, [req[r].value EXCEPT !._delete = TRUE]}
  ELSE {}

\* the bindings of c.env in the contexts createMiddlewareWithContextStore binds
\* (ContextStore.ts:14-17): without and with the configured name
Envs == {{}, {kvName}}
\* the record of the other client's session, as createSession wrote it
OtherSession == Session(OneKey("m", <<"a">>, FALSE), Null, FALSE, toISOString(0))
OtherKey == getKeyFromSessionId("s2")
InitialRecords ==
  [k \in {OtherKey} |-> [value |-> JSON_stringify(OtherSession),
                         options |-> PutOptions(Expiration(OtherSession))]]
Tombs == [i \in SessionIds \ {""} |-> "none"]

KVInit ==
  /\ kv = InitialRecords
  /\ now = 0
  /\ als = [r \in Requests |-> NoContext]
  /\ req = [r \in Requests |-> IdleReq]
  /\ lastMod = [k \in Keys |-> IF k = OtherKey
                                THEN [op |-> "createSession", input |-> ButAccessed(OtherSession)]
                                ELSE NoMod]
  /\ tomb = Tombs

\* the key of the backend call request r waits for
AwaitedKey(r) == req[r].issued[Len(req[r].issued)].key
Without(records, key) == [k \in DOMAIN records \ {key} |-> records[k]]
\* put keeping the record the key already has
With_Keep(records, key, rec) ==
  [k \in DOMAIN records \cup {key} |-> IF k \in DOMAIN records THEN records[k] ELSE rec]
With(records, key, rec) ==
  [k \in DOMAIN records \cup {key} |-> IF k = key THEN rec ELSE records[k]]
\* what is kept of an operation once it has returned or thrown
End(c, kind, error, logged) ==
  [c EXCEPT !.pc = "idle", !.kind = kind, !.error = error, !.logged = @ \o logged,
            !.data = NoSession, !.put = NoPut, !.arg = NoSession, !.at = 0]

\* the session the caller passed, remembered while the operation is suspended
WithArg(c, d) == IF c.pc = "idle" THEN c ELSE [c EXCEPT !.arg = d]
\* the reading of the clock by "new Date()", remembered likewise
CalledAt(c, t) == IF c.pc = "idle" THEN c ELSE [c EXCEPT !.at = t]

\* the backend call the operation awaited has failed
Failing(c) == [c EXCEPT !.failed = Append(@, c.issued[Len(c.issued)].call)]

\* the message of the catch block of each operation
CatchMsg(op) ==
  IF op = "createSession" THEN "Error creating session:"
  ELSE IF op = "persistSessionData" THEN "Error persisting session data:"
  ELSE IF op = "deleteSession" THEN "Error deleting session:"
  ELSE "Error retrieving session:"

\* the catch of getSessionById throwing the error on
GetCatch_Rethrow(c, logged, error) ==
  End(c, "throw", error, logged \o <<Log(CatchMsg("getSessionById"), error)>>)
\* the catch of getSessionById (part_004:92-95), after what deleteSession logged
GetCatch(c, logged, error) ==
  End(c, "null", "", logged \o <<Log(CatchMsg("getSessionById"), error)>>)

\* the catch of a writing operation resolving instead of throwing
WriteCatch_Swallow(c, logged, error) ==
  End(c, "ok", "", logged \o <<Log(CatchMsg(c.op), error)>>)
\* the catch of createSession, persistSessionData and deleteSession
\* (part_004:130-133, 172-175, 189-192), after what deleteSession logged
WriteCatch(c, logged, error) ==
  End(c, "throw", error, logged \o <<Log(CatchMsg(c.op), error)>>)

\* createMiddlewareWithContextStore (ContextStore.ts:14-18): the middleware of
\* request r runs in the scope asyncLocalStore.run(c, ...) opens for it
KV_Run(r, env) ==
  /\ req[r] = IdleReq
  /\ ~als[r].bound
  /\ als' = [als EXCEPT ![r] = ContextOf(r, env)]
  /\ UNCHANGED <<kv, now, req, lastMod, tomb>>
  /\ UNCHANGED <<cookieVars, sessionVars, chunkVars>>

KV_GetCall(r, sessionId) ==
  /\ req[r].pc = "idle"
  /\ req' = [req EXCEPT ![r] = GetStart(getStore(r), sessionId)]
  /\ UNCHANGED <<kv, now, als, lastMod, tomb>>
  /\ UNCHANGED <<cookieVars, sessionVars, chunkVars>>

\* the backend answers the get of getSessionById
KV_GetStep(r, fail) ==
  /\ req[r].pc = "get"
  /\ LET key == AwaitedKey(r)
         c == [req[r] EXCEPT !.readMod = lastMod[key],
                             !.afterPurge = (tomb[req[r].id] # "none"),
                             !.at = now]
     IN req' = [req EXCEPT ![r] =
          IF fail
          THEN GetCatch(Failing(req[r]), <<>>, BackendError)
          ELSE IF key \notin DOMAIN kv THEN End(c, "null", "", <<>>)
          ELSE GetFound(c, getStore(r), kv[key].value, now)]
  /\ UNCHANGED <<kv, now, als, lastMod, tomb>>
  /\ UNCHANGED <<cookieVars, sessionVars, chunkVars>>

\* the backend answers the delete getSessionById issued for a delete-flagged record
KV_GetDeleteStep(r, fail) ==
  /\ req[r].pc = "getDelete"
  /\ LET key == AwaitedKey(r)
     IN IF fail
        THEN /\ req' = [req EXCEPT ![r] =
                  GetCatch(Failing(req[r]),
                           <<Log(CatchMsg("deleteSession"), BackendError)>>, BackendError)]
             /\ UNCHANGED <<kv, lastMod>>
        ELSE /\ req' = [req EXCEPT ![r] = End(req[r], "null", "", <<>>)]
             /\ kv' = Without(kv, key)
             /\ lastMod' = [lastMod EXCEPT ![key] = NoMod]
  /\ UNCHANGED <<now, als, tomb>>
  /\ UNCHANGED <<cookieVars, sessionVars, chunkVars>>

KV_CreateCall(r, sessionId, initialData) ==
  /\ req[r].pc = "idle"
  /\ req' = [req EXCEPT ![r] =
               CalledAt(WithArg(CreateStart(getStore(r), sessionId, initialData, now),
                                initialData), now)]
  /\ tomb' = IF sessionId = "" THEN tomb ELSE [tomb EXCEPT ![sessionId] = "none"]
  /\ UNCHANGED <<kv, now, als, lastMod>>
  /\ UNCHANGED <<cookieVars, sessionVars, chunkVars>>

KV_PersistCall(r, sessionId, sessionData) ==
  /\ req[r].pc = "idle"
  /\ sessionData \in Loaded(r) => sessionId = req[r].id
  /\ req' = [req EXCEPT ![r] =
               CalledAt(WithArg(PersistStart(getStore(r), sessionId, sessionData, now),
                                sessionData), now)]
  /\ UNCHANGED <<kv, now, als, lastMod, tomb>>
  /\ UNCHANGED <<cookieVars, sessionVars, chunkVars>>

\* another request waits for the backend to apply its put under the same key
PutInFlight(r, key) ==
  \E q \in Requests \ {r} :
    req[q].pc = "put" /\ req[q].op = "persistSessionData" /\ req[q].put.key = key

\* the backend answers the put of createSession or persistSessionData
KV_PutStep(r, fail) ==
  /\ req[r].pc = "put"
  /\ LET c == req[r]
     IN IF fail
        THEN /\ req' = [req EXCEPT ![r] = WriteCatch(Failing(c), <<>>, BackendError)]
             /\ UNCHANGED <<kv, lastMod, tomb>>
        ELSE /\ req' = [req EXCEPT ![r] =
                  IF c.op = "persistSessionData"
                  THEN [End(c, "ok", "", <<>>) EXCEPT
                          !.wrote = ButAccessed(c.arg),
                          !.overlap = PutInFlight(r, c.put.key)]
                  ELSE End(c, "ok", "", <<>>)]
             /\ kv' = With(kv, c.put.key, [value |-> c.put.value, options |-> c.put.options])
             /\ lastMod' = [lastMod EXCEPT ![c.put.key] =
                              [op |-> c.op, input |-> ButAccessed(c.arg)]]
             /\ tomb' = [tomb EXCEPT ![c.id] =
                           IF c.op = "createSession" THEN "none"
                           ELSE IF @ = "purged" THEN "rewritten" ELSE @]
  /\ UNCHANGED <<now, als>>
  /\ UNCHANGED <<cookieVars, sessionVars, chunkVars>>

KV_DeleteCall(r, sessionId) ==
  /\ req[r].pc = "idle"
  /\ req' = [req EXCEPT ![r] = DeleteStart(getStore(r), sessionId)]
  /\ UNCHANGED <<kv, now, als, lastMod, tomb>>
  /\ UNCHANGED <<cookieVars, sessionVars, chunkVars>>

\* the backend answers the delete of deleteSession, called by the request or by
\* persistSessionData
KV_DeleteStep(r, fail) ==
  /\ req[r].pc \in {"delete", "persistDelete"}
  /\ LET c == req[r]
         key == AwaitedKey(r)
         inner == IF c.pc = "persistDelete"
                  THEN <<Log(CatchMsg("deleteSession"), BackendError)>>
                  ELSE <<>>
     IN IF fail
        THEN /\ req' = [req EXCEPT ![r] = WriteCatch(Failing(c), inner, BackendError)]
             /\ UNCHANGED <<kv, lastMod, tomb>>
        ELSE /\ req' = [req EXCEPT ![r] = End(c, "ok", "", <<>>)]
             /\ kv' = Without(kv, key)
             /\ lastMod' = [lastMod EXCEPT ![key] = NoMod]
             /\ tomb' = IF c.pc = "persistDelete"
                        THEN [tomb EXCEPT ![c.id] = "purged"]
                        ELSE tomb
  /\ UNCHANGED <<now, als>>
  /\ UNCHANGED <<cookieVars, sessionVars, chunkVars>>

\* time passes
Tick ==
  /\ now < MaxTicks * TimeStep
  /\ now' = now + TimeStep
  /\ UNCHANGED <<kv, als, req, lastMod, tomb>>
  /\ UNCHANGED <<cookieVars, sessionVars, chunkVars>>

KVNext ==
  \/ \E r \in Requests : \E e \in Envs : KV_Run(r, e)
  \/ \E r \in Requests : \E i \in IdsOf(r) : KV_GetCall(r, i)
  \/ \E r \in Requests, f \in BOOLEAN : KV_GetStep(r, f)
  \/ \E r \in Requests, f \in BOOLEAN : KV_GetDeleteStep(r, f)
  \/ \E r \in Requests : \E i \in IdsOf(r) : \E d \in CreateSessions : KV_CreateCall(r, i, d)
  \/ \E r \in Requests : \E i \in IdsOf(r) :
        \E d \in PersistSessions \cup Loaded(r) : KV_PersistCall(r, i, d)
  \/ \E r \in Requests, f \in BOOLEAN : KV_PutStep(r, f)
  \/ \E r \in Requests : \E i \in IdsOf(r) : KV_DeleteCall(r, i)
  \/ \E r \in Requests, f \in BOOLEAN : KV_DeleteStep(r, f)
  \/ Tick

(***************************************************************************)
(* Session (Session.ts) and the middleware around the handler              *)
(* (Middleware.ts), after sections 3 and 4.4 of the specification: the     *)
(* middleware loads the SessionData the store holds, or makes an empty     *)
(* one, wraps it in a Session, lets the handler use it and persists it at  *)
(* the end of the request; for a store other than the cookie store it may  *)
(* skip the persist when the Session is not dirty.  Requests follow one    *)
(* another.  The store keeps the JSON text of the SessionData.             *)
(***************************************************************************)
\* the values handlers flash (each at most once) and set
FlashValues == {<<TwoByteChar>>, <<ThreeByteChar>>}
SetValues == {<<"a">>}

Absent == [present |-> FALSE, value |-> <<>>]
Present(v) == [present |-> TRUE, value |-> v]
DropKey(data, key) == [x \in DOMAIN data \ {key} |-> data[x]]
PutKey(data, key, e) == [x \in DOMAIN data \cup {key} |-> IF x = key THEN e ELSE data[x]]

\* get(key) leaving a flash entry in place
Session_get_Keep(c, key) ==
  IF key \in DOMAIN c._data
  THEN [cache |-> c, result |-> Present(c._data[key].value), changed |-> FALSE]
  ELSE [cache |-> c, result |-> Absent, changed |-> FALSE]
\* get(key): [cache, result, changed]
Session_get(c, key) ==
  IF key \notin DOMAIN c._data
  THEN [cache |-> c, result |-> Absent, changed |-> FALSE]
  ELSE IF c._data[key].flash
  THEN [cache |-> [c EXCEPT !._data = DropKey(@, key)],
        result |-> Present(c._data[key].value), changed |-> TRUE]
  ELSE [cache |-> c, result |-> Present(c._data[key].value), changed |-> FALSE]
Session_set(c, key, value) == [c EXCEPT !._data = PutKey(@, key, Entry(value, FALSE))]
Session_flash(c, key, value) == [c EXCEPT !._data = PutKey(@, key, Entry(value, TRUE))]
Session_forget(c, key) == [c EXCEPT !._data = DropKey(@, key)]
Session_deleteSession(c) == [c EXCEPT !._delete = TRUE]

NothingStored == [has |-> FALSE, text |-> <<>>]
\* what the middleware hands to the Session: the stored session, or a new one
LoadOrCreate(s) ==
  IF s.has /\ JSON_parse(s.text).ok THEN JSON_parse(s.text).value ELSE NoSession
\* what the store holds after the persist at the end of the request
PersistAtEnd(c) ==
  IF c._delete THEN NothingStored ELSE [has |-> TRUE, text |-> JSON_stringify(c)]

\* the last call of the handler, if it was a get: the entry it found and its result
NoGet == [called |-> FALSE, key |-> "", had |-> FALSE, flash |-> FALSE, value |-> <<>>,
          result |-> Absent]
\* where a flashed value is on its way: "unused", "flashed", "read" (returned by
\* a get), "readPersisted", "reloaded", "absentSeen" (a get of its key in a
\* later request found nothing), "twice" (returned by a second get)
Unused == [st |-> "unused", key |-> ""]

SessionInit ==
  /\ stored = NothingStored
  /\ cache = NoSession
  /\ phase = "between"
  /\ dirty = FALSE
  /\ got = NoGet
  /\ flashes = [v \in FlashValues |-> Unused]

\* the middleware takes a request
S_Load ==
  /\ phase = "between"
  /\ phase' = "handling"
  /\ cache' = LoadOrCreate(stored)
  /\ dirty' = FALSE
  /\ got' = NoGet
  /\ flashes' = [v \in FlashValues |->
                 IF flashes[v].st = "readPersisted" THEN [flashes[v] EXCEPT !.st = "reloaded"]
                 ELSE flashes[v]]
  /\ UNCHANGED stored
  /\ UNCHANGED <<cookieVars, kvVars, chunkVars>>

S_Get(key) ==
  /\ phase = "handling"
  /\ LET g == Session_get(cache, key)
         had == key \in DOMAIN cache._data
     IN /\ cache' = g.cache
        /\ dirty' = (dirty \/ g.changed)
        /\ got' = [called |-> TRUE, key |-> key, had |-> had,
                   flash |-> had /\ cache._data[key].flash,
                   value |-> IF had THEN cache._data[key].value ELSE <<>>,
                   result |-> g.result]
        /\ flashes' = [v \in FlashValues |->
             IF g.result = Present(v)
             THEN [flashes[v] EXCEPT !.st = IF @ = "flashed" THEN "read" ELSE "twice"]
             ELSE IF ~g.result.present /\ flashes[v].key = key /\ flashes[v].st = "reloaded"
             THEN [flashes[v] EXCEPT !.st = "absentSeen"]
             ELSE flashes[v]]
  /\ UNCHANGED <<stored, phase>>
  /\ UNCHANGED <<cookieVars, kvVars, chunkVars>>

S_Set(key, value) ==
  /\ phase = "handling"
  /\ cache' = Session_set(cache, key, value)
  /\ dirty' = TRUE
  /\ got' = NoGet
  /\ UNCHANGED <<stored, phase, flashes>>
  /\ UNCHANGED <<cookieVars, kvVars, chunkVars>>

S_Flash(key, value) ==
  /\ phase = "handling"
  /\ flashes[value].st = "unused"
  /\ cache' = Session_flash(cache, key, value)
  /\ dirty' = TRUE
  /\ flashes' = [flashes EXCEPT ![value] = [st |-> "flashed", key |-> key]]
  /\ got' = NoGet
  /\ UNCHANGED <<stored, phase>>
  /\ UNCHANGED <<cookieVars, kvVars, chunkVars>>

S_Forget(key) ==
  /\ phase = "handling"
  /\ cache' = Session_forget(cache, key)
  /\ dirty' = TRUE
  /\ got' = NoGet
  /\ UNCHANGED <<stored, phase, flashes>>
  /\ UNCHANGED <<cookieVars, kvVars, chunkVars>>

S_DeleteSession ==
  /\ phase = "handling"
  /\ cache' = Session_deleteSession(cache)
  /\ dirty' = TRUE
  /\ got' = NoGet
  /\ UNCHANGED <<stored, phase, flashes>>
  /\ UNCHANGED <<cookieVars, kvVars, chunkVars>>

\* the end of the request: the middleware persists the session, or skips the
\* persist of a session that is not dirty
S_Finish(skip) ==
  /\ phase = "handling"
  /\ skip => ~dirty
  /\ stored' = IF skip THEN stored ELSE PersistAtEnd(cache)
  /\ phase' = "between"
  /\ flashes' = [v \in FlashValues |->
                 IF flashes[v].st = "read" THEN [flashes[v] EXCEPT !.st = "readPersisted"]
                 ELSE flashes[v]]
  /\ got' = NoGet
  /\ UNCHANGED <<cache, dirty>>
  /\ UNCHANGED <<cookieVars, kvVars, chunkVars>>

SessionNext ==
  \/ S_Load
  \/ \E k \in KeySet : S_Get(k)
  \/ \E k \in KeySet, v \in SetValues : S_Set(k, v)
  \/ \E k \in KeySet, v \in FlashValues : S_Flash(k, v)
  \/ \E k \in KeySet : S_Forget(k)
  \/ S_DeleteSession
  \/ S_Finish(TRUE)
  \/ S_Finish(FALSE)

(***************************************************************************)
(* The specifications: each takes one part of the system through its       *)
(* steps and leaves the others as they start.                              *)
(***************************************************************************)
(***************************************************************************)
(* chunkStringByBytes (part_002:13-36) called on inputs of its own.        *)
(***************************************************************************)
RECURSIVE Strings(_, _)
\* the strings of at most n characters of chars
Strings(chars, n) ==
  IF n = 0 THEN {<<>>}
  ELSE LET shorter == Strings(chars, n - 1)
       IN shorter \cup {Append(t, ch) : t \in shorter, ch \in chars}

\* inputs: every short string of one- to four-byte characters, and the
\* strings of single-byte characters up to MaxRun
ChunkInputs == Strings(ValueChars, MaxChunkLen) \cup {Repeat("a", n) : n \in 0..MaxRun}

NotCalled == [returned |-> FALSE, chunks |-> <<>>]

\* no call of chunkStringByBytes on its own
ChunkIdle == chunkInput = <<>> /\ chunkMax = 1 /\ chunkOut = NotCalled

ChunkInit ==
  /\ chunkInput \in ChunkInputs
  /\ chunkMax \in 1..MaxBytes
  /\ chunkOut = NotCalled

\* chunkStringByBytes(chunkInput, chunkMax) runs and returns
ChunkCall ==
  /\ ~chunkOut.returned
  /\ chunkOut' = [returned |-> TRUE, chunks |-> chunkStringByBytes(chunkInput, chunkMax)]
  /\ UNCHANGED <<chunkInput, chunkMax>>
  /\ UNCHANGED <<cookieVars, kvVars, sessionVars>>

\* the next call is made with the input one character longer
ChunkLonger(ch) ==
  /\ chunkOut.returned
  /\ Append(chunkInput, ch) \in ChunkInputs
  /\ chunkInput' = Append(chunkInput, ch)
  /\ chunkOut' = NotCalled
  /\ UNCHANGED chunkMax
  /\ UNCHANGED <<cookieVars, kvVars, sessionVars>>

ChunkNext ==
  \/ ChunkCall
  \/ \E ch \in ValueChars : ChunkLonger(ch)

Init == CookieInit /\ KVInit /\ (\A r \in Requests : als[r] = NoContext) /\ SessionInit
        /\ ChunkIdle
Next == CookieNext
Spec == Init /\ [][Next]_vars

InitKV == KVInit /\ CookieInit /\ encryptionKey = Null /\ cookieOptions.maxAge = {}
            /\ SessionInit /\ ChunkIdle
SpecKV == InitKV /\ [][KVNext]_vars

InitSession == SessionInit /\ CookieInit /\ encryptionKey = Null
                 /\ cookieOptions.maxAge = {} /\ KVInit
                 /\ (\A r \in Requests : als[r] = NoContext) /\ ChunkIdle
SpecSession == InitSession /\ [][SessionNext]_vars

InitChunk == ChunkInit /\ CookieInit /\ encryptionKey = Null /\ cookieOptions.maxAge = {}
             /\ KVInit /\ SessionInit
SpecChunk == InitChunk /\ [][ChunkNext]_vars

(***************************************************************************)
(* Properties of the cookie store.                                         *)
(***************************************************************************)
\* the chunks persistSessionData makes of a session under the store's key
Chunks(d) == chunkStringByBytes(Payload(encryptionKey, d), CHUNK_SIZE)
LastDone == hist[Len(hist)]
\* getSession has run on the cookies the client holds
Got == cres.op = "getSession"
\* the client holds what a completed persistSessionData left
Persisted == hist # <<>> /\ LastDone.op = "persistSessionData"
MaxPayloadBytes == MAX_COOKIES * CHUNK_SIZE

\* C1, as stated: with a key, any session whose JSON text is at most
\* MAX_COOKIES * CHUNK_SIZE bytes before encryption is read back by getSession
\* from the cookies persistSessionData left.
C1_Original ==
  (/\ encryptionKey # Null /\ Persisted /\ Got
   /\ ByteLength(JSON_stringify(LastDone.data)) <= MaxPayloadBytes)
  => (cres.kind = "session" /\ cres.value = LastDone.data)

\* C1, amended: with a key, any session whose encrypted payload is at most
\* MAX_COOKIES * CHUNK_SIZE bytes is read back by getSession, equal to the
\* input, from the cookies persistSessionData left.
C1_RoundTrip ==
  (/\ encryptionKey # Null /\ Persisted /\ Got
   /\ ByteLength(Payload(encryptionKey, LastDone.data)) <= MaxPayloadBytes)
  => (cres.kind = "session" /\ cres.value = LastDone.data)

C1_Witness ==
  /\ encryptionKey # Null /\ Persisted /\ Got
  /\ Len(Chunks(LastDone.data)) = MAX_COOKIES
  /\ cres.kind = "session" /\ cres.value = LastDone.data
  /\ cres.value._data # EmptyData

\* sessions A then B were persisted to the same client, B in fewer chunks
ShrunkAB ==
  /\ Len(hist) = 2
  /\ hist[1].op = "persistSessionData" /\ hist[1].kind = "ok"
  /\ hist[2].op = "persistSessionData" /\ hist[2].kind = "ok"
  /\ Len(Chunks(hist[2].data)) < Len(Chunks(hist[1].data))

\* every cookie N..N_9 the client holds is the chunk of d with its index
OnlyChunksOf(d) ==
  \A i \in 0..(MAX_COOKIES - 1) :
    LET n == getCookieName(sessionCookieName, i)
    IN n \in DOMAIN jar => (i < Len(Chunks(d)) /\ jar[n] = Chunks(d)[i + 1])

\* C3, as stated: after A then B (fewer chunks), no cookie N..N_9 holds a chunk
\* of A, and getSession returns B.
C3_Original ==
  ShrunkAB => /\ OnlyChunksOf(hist[2].data)
              /\ Got => (cres.kind = "session" /\ cres.value = hist[2].data)

\* C3, amended: after A then B (fewer chunks), no cookie N..N_9 holds a chunk
\* of A, and with an encryption key configured getSession returns B.
C3_NoOrphanChunk ==
  ShrunkAB => /\ OnlyChunksOf(hist[2].data)
              /\ (Got /\ encryptionKey # Null)
                   => (cres.kind = "session" /\ cres.value = hist[2].data)

C3_Witness ==
  /\ ShrunkAB /\ Got /\ encryptionKey # Null
  /\ Len(Chunks(hist[1].data)) = MAX_COOKIES
  /\ Len(Chunks(hist[2].data)) = 1
  /\ cres.value = hist[2].data

\* persistSessionData has run to its end
PersistEnded == cres.op = "persistSessionData" /\ cres.kind \in {"ok", "throw"}

\* C4: persistSessionData fails, with the oversized-session error, exactly when
\* the payload splits into more than MAX_COOKIES chunks, and then the response
\* holds the MAX_COOKIES + 1 clearing writes and no write of a non-empty value.
C4_OversizedExactly ==
  PersistEnded =>
    /\ (cres.kind = "throw") <=> (Len(Chunks(cres.input)) > MAX_COOKIES)
    /\ cres.kind = "throw" =>
         /\ cres.error = TooLarge
         /\ Len(resp) = MAX_COOKIES + 1
         /\ \A i \in 1..Len(resp) : resp[i].value = <<>>

C4_Witness ==
  /\ PersistEnded /\ cres.kind = "throw"
  /\ Len(Chunks(cres.input)) = MAX_COOKIES + 1
  /\ Len(resp) = MAX_COOKIES + 1

\* C6, as stated: after persistSessionData of a session whose delete flag is
\* set, no cookie holds the payload and getSession returns null.
C6_DeleteFlagPurges ==
  (Persisted /\ LastDone.kind = "ok" /\ LastDone.data._delete)
  => /\ \A n \in ChunkNames : Falsy(getCookie(jar, n))
     /\ Got => cres.kind = "null"

\* the text is a decimal numeral of a positive integer
IsPositiveInteger(s) ==
  /\ s # <<>>
  /\ \A i \in 1..Len(s) : s[i] \in DigitChars
  /\ \E i \in 1..Len(s) : s[i] # "0"

\* the concatenation getSession hands to decrypt
SessionCookie == ReadChunks(jar, 0, CookieCount(jar).val, <<>>, <<>>).sessionCookie
CountAccepted == ~CookieCount(jar).nan /\ CookieCount(jar).val >= 1

\* C8: with a key, whenever the non-empty concatenated cookie string does not
\* decrypt, or decrypts to a text that is not JSON, getSession returns null
\* (and does not raise).
C8_CorruptIsNull ==
  (/\ Got /\ encryptionKey # Null /\ CountAccepted /\ SessionCookie # <<>>
   /\ LET raw == decrypt(encryptionKey, SessionCookie)
      IN ~raw.ok \/ ~JSON_parse(raw.value).ok)
  => cres.kind = "null"

C8_Witness ==
  /\ Got /\ encryptionKey # Null /\ CountAccepted /\ SessionCookie # <<>>
  /\ decrypt(encryptionKey, SessionCookie).ok
  /\ ~JSON_parse(decrypt(encryptionKey, SessionCookie).value).ok
  /\ cres.kind = "null"

\* C9, as stated: getSession rejects with the invalid-count error whenever
\* N_count holds a (non-empty) value that is not a positive integer.
C9_RejectsNonPositiveInteger ==
  (/\ Got /\ CountName \in DOMAIN jar /\ jar[CountName] # <<>>
   /\ ~IsPositiveInteger(jar[CountName]))
  => (cres.kind = "throw" /\ cres.error = InvalidCount)

\* C10, as stated: without a key getSession returns null whatever the cookies.
C10_Original == (Got /\ encryptionKey = Null) => cres.kind = "null"

\* C10, amended: without a key getSession returns null for all cookies whose
\* N_count it accepts (absent, empty, or read by parseInt as an integer >= 1),
\* and rejects with the invalid-count error for the others.
C10_NullUnlessBadCount ==
  (Got /\ encryptionKey = Null)
  => IF CountAccepted THEN cres.kind = "null"
     ELSE cres.kind = "throw" /\ cres.error = InvalidCount

C10_Witness ==
  /\ Got /\ encryptionKey = Null /\ cres.kind = "null"
  /\ Persisted /\ LastDone.kind = "ok"
  /\ JSON_parse(SessionCookie).ok
  /\ JSON_parse(SessionCookie).value = LastDone.data
  /\ Len(Chunks(LastDone.data)) > 1

\* persistSessionData has run to its end and resolved
PersistOk == cres.op = "persistSessionData" /\ cres.kind = "ok"
\* the cookies of the client once it has applied the writes of the response
AfterWrites == ApplyWrites(jar, resp)
DataWrites(k) == IF k = 1 THEN 1 ELSE k + 1

\* C18: persistSessionData of a payload of k chunks (1 <= k <= MAX_COOKIES)
\* issues the MAX_COOKIES + 1 clearing writes and then the data writes; once the
\* client has applied them in order, cookie N_i holds chunk i for every i < k,
\* it holds no cookie N_i for k <= i < MAX_COOKIES, and N_count holds the
\* decimal numeral of k when k >= 2 and no value when k = 1.
C18_ChunkLayout ==
  PersistOk =>
    LET chunks == Chunks(cres.input)
        k == Len(chunks)
    IN /\ k \in 1..MAX_COOKIES
       /\ Len(resp) = MAX_COOKIES + 1 + DataWrites(k)
       /\ \A j \in 1..Len(resp) : (resp[j].value = <<>>) <=> (j <= MAX_COOKIES + 1)
       /\ \A i \in 0..(MAX_COOKIES - 1) :
            LET n == getCookieName(sessionCookieName, i)
            IN IF i < k
               THEN n \in DOMAIN AfterWrites /\ AfterWrites[n] = chunks[i + 1]
               ELSE n \notin DOMAIN AfterWrites
       /\ IF k >= 2
          THEN /\ CountName \in DOMAIN AfterWrites
               /\ AfterWrites[CountName] = NumberToString(k)
          ELSE Falsy(getCookie(AfterWrites, CountName))

\* a session of two chunks is persisted to a client that holds one of
\* MAX_COOKIES chunks
C18_Witness ==
  /\ PersistOk
  /\ Len(Chunks(cres.input)) = 2
  /\ ChunkNames \subseteq DOMAIN jar
  /\ jar[CountName] = NumberToString(MAX_COOKIES)
  /\ AfterWrites[CountName] = <<"2">>

\* C19: deleteSession performs exactly MAX_COOKIES + 1 cookie writes, whatever
\* cookies the request carries: the empty value to each of N, N_1, ..., N_9
\* with the configured options and maxAge 0, then the empty value to N_count
\* with the configured options.
C19_DeleteWrites ==
  cres.op = "deleteSession" =>
    /\ Len(resp) = MAX_COOKIES + 1
    /\ \A i \in 0..(MAX_COOKIES - 1) :
         resp[i + 1] = [name |-> getCookieName(sessionCookieName, i), value |-> <<>>,
                        options |-> [cookieOptions EXCEPT !.maxAge = {0}]]
    /\ resp[MAX_COOKIES + 1] =
         [name |-> CountName, value |-> <<>>, options |-> cookieOptions]

\* the request carries the cookies of a session of MAX_COOKIES chunks, and the
\* configured options have a maxAge of their own
C19_Witness ==
  /\ cres.op = "deleteSession"
  /\ Len(resp) = MAX_COOKIES + 1
  /\ ChunkNames \cup {CountName} \subseteq DOMAIN jar
  /\ cookieOptions.maxAge = {3600}

\* C20, as stated: deleteSession writes every one of N, N_1, ..., N_9 and
\* N_count with the empty value and immediate expiry, and the client that
\* applies the writes holds none of them any more, not even with an empty
\* value.
C20_DeletionExpiresAll ==
  /\ cres.op = "deleteSession" =>
       \A j \in 1..Len(resp) : resp[j].value = <<>> /\ 0 \in resp[j].options.maxAge
  /\ (hist # <<>> /\ LastDone.op = "deleteSession") =>
       \A n \in ChunkNames \cup {CountName} : n \notin DOMAIN jar

(***************************************************************************)
(* Properties of the keyed store.                                          *)
(***************************************************************************)
\* equal in every field except _accessed
SameButAccessed(a, b) == ButAccessed(a) = ButAccessed(b)
\* request r has the answer of a getSessionById that met no failure and read
\* a record last written by a persistSessionData
GotPersisted(r) ==
  /\ Settled(req[r])
  /\ req[r].op = "getSessionById"
  /\ req[r].logged = <<>>
  /\ req[r].readMod.op = "persistSessionData"

\* C2: for a non-empty id and a session with delete = false, when no backend
\* call fails and nothing else was done to the id in between, getSessionById
\* after persistSessionData returns the session that was passed to
\* persistSessionData, equal in every field except accessed.
C2_PersistThenGet ==
  \A r \in Requests :
    GotPersisted(r) =>
      /\ req[r].kind = "session"
      /\ SameButAccessed(req[r].value, req[r].readMod.input)

C2_Witness ==
  \E r \in Requests :
    /\ GotPersisted(r)
    /\ req[r].kind = "session"
    /\ req[r].readMod.input._expire # Null
    /\ req[r].value._accessed # Null

\* C5, as stated: once a persistSessionData with delete = true has completed
\* for an id, and no createSession for it was called since, the backend holds
\* no record under prefix+id and every getSessionById the backend answers
\* from then on returns null, whatever other requests persist in between.
C5_DeleteIsTerminal ==
  /\ \A i \in SessionIds \ {""} :
        tomb[i] # "none" => getKeyFromSessionId(i) \notin DOMAIN kv
  /\ \A r \in Requests :
        (Settled(req[r]) /\ req[r].op = "getSessionById" /\ req[r].afterPurge)
          => req[r].kind = "null"

\* the error sink of the operation holds the message with the error
Reported(q, msg, error) == \E i \in 1..Len(q.logged) : q.logged[i] = Log(msg, error)
WriteOps == {"createSession", "persistSessionData", "deleteSession"}

\* C11: getSessionById never raises; whenever the backend get, or the delete
\* issued for a delete-flagged record, fails, it reports the failure to the
\* error sink and resolves to null.
C11_GetNeverRaises ==
  \A r \in Requests :
    (Settled(req[r]) /\ req[r].op = "getSessionById") =>
      /\ req[r].kind # "throw"
      /\ req[r].failed # <<>> =>
           /\ req[r].kind = "null"
           /\ Reported(req[r], CatchMsg("getSessionById"), BackendError)

\* the delete issued for a delete-flagged record failed, and the record stays
C11_Witness ==
  \E r \in Requests :
    /\ Settled(req[r]) /\ req[r].op = "getSessionById"
    /\ req[r].failed = <<"delete">>
    /\ req[r].kind = "null"
    /\ Len(req[r].logged) = 2
    /\ getKeyFromSessionId(req[r].id) \in DOMAIN kv

\* C12: whenever the backend put or delete createSession, persistSessionData
\* or deleteSession issued fails, the operation reports the failure and
\* fails with that same error; it never resolves after a failed backend call.
C12_WriteFailureRaised ==
  \A r \in Requests :
    (Settled(req[r]) /\ req[r].op \in WriteOps) =>
      /\ req[r].failed # <<>> =>
           /\ req[r].kind = "throw"
           /\ req[r].error = BackendError
           /\ Reported(req[r], CatchMsg(req[r].op), BackendError)
      /\ req[r].kind = "ok" => req[r].failed = <<>>

\* the delete persistSessionData issued for a delete-flagged session failed
C12_Witness ==
  \E r \in Requests :
    /\ Settled(req[r]) /\ req[r].op = "persistSessionData"
    /\ req[r].failed = <<"delete">>
    /\ req[r].kind = "throw" /\ req[r].error = BackendError
    /\ Len(req[r].logged) = 2

\* C13: called with an empty id, no operation calls the backend;
\* getSessionById resolves to undefined, which it never does for an id that is
\* not empty, and createSession, persistSessionData and deleteSession fail
\* with the missing-identifier error.
C13_EmptyIdNoBackend ==
  \A r \in Requests :
    /\ (req[r].op # "none" /\ req[r].id = "") =>
         /\ Settled(req[r])
         /\ req[r].issued = <<>>
         /\ req[r].op = "getSessionById" => req[r].kind = "undefined"
         /\ req[r].op \in WriteOps =>
              (req[r].kind = "throw" /\ req[r].error = MissingId)
    /\ (req[r].op = "getSessionById" /\ req[r].id # "") => req[r].kind # "undefined"

\* the request has a backend at hand that holds records, and was not asked
C13_Witness ==
  \E r \in Requests :
    /\ KvGetter(als[r]).ok
    /\ req[r].op = "getSessionById" /\ req[r].id = ""
    /\ req[r].kind = "undefined" /\ req[r].issued = <<>>
    /\ Cardinality(DOMAIN kv) = 2

\* C14, as stated: with no context bound, or no binding under the configured
\* name in the bound context, every operation called with a non-empty id
\* fails with the error raised to the caller and calls the backend not at all.
C14_MissingBindingRaised ==
  \A r \in Requests :
    (Settled(req[r]) /\ req[r].id # "" /\ ~KvGetter(als[r]).ok) =>
      /\ req[r].kind = "throw"
      /\ req[r].error = KvGetter(als[r]).error
      /\ req[r].issued = <<>>

BothPersisted(i) ==
  \A r \in Requests :
    /\ Settled(req[r]) /\ req[r].op = "persistSessionData" /\ req[r].kind = "ok"
    /\ req[r].id = i
    /\ req[r].issued = <<Call("put", getKeyFromSessionId(i))>>
\* the text persistSessionData puts for the session request r passed
IsRecordOf(text, r) ==
  \E t \in Times : text = JSON_stringify(PersistPrepare(req[r].wrote, t))

\* C16: once two persistSessionData calls for the same id, both with delete =
\* false, have completed, the backend record is the whole serialized data of
\* one of the two, and of the other one when that one's put was still awaited
\* as the first was applied.
C16_LastWriterWins ==
  \A i \in SessionIds \ {""} :
    BothPersisted(i) =>
      LET key == getKeyFromSessionId(i)
      IN /\ key \in DOMAIN kv
         /\ \E r \in Requests : IsRecordOf(kv[key].value, r)
         /\ \A r \in Requests : \A q \in Requests \ {r} :
              req[r].overlap => IsRecordOf(kv[key].value, q)

\* the two calls passed different sessions and overlapped
C16_Witness ==
  \E r \in Requests : \E q \in Requests \ {r} :
    /\ BothPersisted("s1")
    /\ req[r].overlap
    /\ req[r].wrote # req[q].wrote
    /\ IsRecordOf(kv[getKeyFromSessionId("s1")].value, q)
    /\ ~IsRecordOf(kv[getKeyFromSessionId("s1")].value, r)

\* C17, as stated: the put of createSession and persistSessionData receives
\* the absolute expiry floor(ms of expire / 1000) and no TTL when data.expire
\* is set, and the configured TTL and no absolute expiry when it is null.
C17_ExpiryOrTtl ==
  \A r \in Requests :
    req[r].pc = "put" =>
      LET d == req[r].data
          o == req[r].put.options
      IN IF d._expire # Null
         THEN o = [expiration |-> {getTime(d._expire) \div 1000}, expirationTtl |-> {}]
         ELSE o = [expiration |-> {}, expirationTtl |-> {expirationTtl}]

\* C21, as stated: createSession(c, data) has the outcome of
\* persistSessionData(c, data): once it has settled the response holds the
\* cookie writes of persistSessionData, and it fails with the oversized-session
\* error whenever persistSessionData does.
C21_CreateIsPersist ==
  cres.op = "createSession" =>
    LET r == PersistBody(<<>>, Payload(encryptionKey, cres.input), cookieOptions)
    IN /\ cres.kind = r.kind
       /\ cres.kind = "throw" => cres.error = TooLarge
       /\ resp = r.writes

\* ceil(a / b)
CeilDiv(a, b) == (a + b - 1) \div b
\* every character of s is encoded in one byte
SingleByte(s) == \A i \in 1..Len(s) : UTF8Len(s[i]) = 1

\* C25: for an input of L single-byte characters and maxBytes B >= 1
\* chunkStringByBytes returns exactly ceil(L / B) chunks (none for the empty
\* string, the input as the one chunk when 1 <= L <= B); and for any input the
\* chunks, concatenated in order, are the input, each chunk being a run of
\* whole characters of it.
C25_ChunkCount ==
  chunkOut.returned =>
    LET chunks == chunkOut.chunks
        L == Len(chunkInput)
    IN /\ Concat(chunks) = chunkInput
       /\ SingleByte(chunkInput) =>
            /\ Len(chunks) = CeilDiv(L, chunkMax)
            /\ L = 0 => chunks = <<>>
            /\ (1 <= L /\ L <= chunkMax) => chunks = <<chunkInput>>
            /\ \A j \in 1..Len(chunks) : 1 <= Len(chunks[j]) /\ Len(chunks[j]) <= chunkMax

\* an input of single-byte characters that takes three chunks, the last one
\* not full
C25_Witness ==
  /\ chunkOut.returned
  /\ SingleByte(chunkInput) /\ Len(chunkInput) = 2 * chunkMax + 1 /\ chunkMax >= 2
  /\ Len(chunkOut.chunks) = 3
  /\ Len(chunkOut.chunks[3]) = 1

\* C32, as stated: when the promise of createSession(c, data) resolves, every
\* cookie write of the persist it started has been applied to the response,
\* also when there is an encryption key and the encryption suspends.
C32_WritesBeforeResolve ==
  (cres.op = "createSession" /\ cres.kind = "ok") =>
    /\ ~cpend.active
    /\ cres.late # "pending"
    /\ cres.late = "ok" => Len(resp) > MAX_COOKIES + 1

\* every chunk returned is non-empty and of at most chunkMax bytes
ChunksBounded ==
  \A j \in 1..Len(chunkOut.chunks) :
    /\ chunkOut.chunks[j] # <<>>
    /\ ByteLength(chunkOut.chunks[j]) <= chunkMax
\* no character of the input is wider than chunkMax bytes
CharsFit == \A i \in 1..Len(chunkInput) : UTF8Len(chunkInput[i]) <= chunkMax

\* C31, as stated: for every input and every maxBytes >= 1, every chunk
\* returned is non-empty and of at most maxBytes bytes.
C31_Original == chunkOut.returned => ChunksBounded

\* C31, amended: for every maxBytes >= 1 and every input none of whose
\* characters is encoded in more than maxBytes bytes, every chunk returned is
\* non-empty and of at most maxBytes bytes.
C31_ChunksBounded == (chunkOut.returned /\ CharsFit) => ChunksBounded

\* an input of characters of several widths, cut where the next character
\* would not fit: a chunk is left short of maxBytes
C31_Witness ==
  /\ chunkOut.returned /\ CharsFit
  /\ ~SingleByte(chunkInput)
  /\ Len(chunkOut.chunks) >= 2
  /\ \E j \in 1..(Len(chunkOut.chunks) - 1) : ByteLength(chunkOut.chunks[j]) < chunkMax
  /\ \E j \in 1..Len(chunkOut.chunks) : ByteLength(chunkOut.chunks[j]) = chunkMax

\* the name of chunk i, written out
ChunkName(i) == IF i = 0 THEN "session" ELSE "session_" \o ToString(i)
\* the request has chunk i, and not as the empty string
HasChunk(i) == ChunkName(i) \in DOMAIN jar /\ jar[ChunkName(i)] # <<>>
\* the count getSession is to work with: 1 for an absent or empty N_count
CountRead ==
  IF "session_count" \notin DOMAIN jar \/ jar["session_count"] = <<>>
  THEN 1
  ELSE parseInt(jar["session_count"]).val

\* C29: getSession takes an absent or empty N_count as 1, reads N, N_1, ...,
\* N_{count-1} in increasing order of index (index 0 under the name N), stops
\* at the first absent or empty chunk, and passes to decrypt the
\* concatenation, in that order, of the chunks before it.
C29_ChunksReadInOrder ==
  (cres.op = "getSession" /\ cres.kind # "throw") =>
    LET n == Len(cres.reads)
        m == IF HasChunk(n - 1) THEN n ELSE n - 1
    IN /\ n >= 1 /\ n <= CountRead
       /\ \A i \in 1..n : cres.reads[i] = ChunkName(i - 1)
       /\ \A i \in 1..(n - 1) : HasChunk(i - 1)
       /\ n < CountRead => ~HasChunk(n - 1)
       /\ cres.decryptCalled <=> (encryptionKey # Null /\ m >= 1)
       /\ cres.decryptCalled =>
            cres.decryptArg = Concat([i \in 1..m |-> jar[ChunkName(i - 1)]])

\* chunk 0 was read and chunk 1, lost by the client, ended the reading before
\* the count was reached: decrypt was given chunk 0 alone, the later chunks
\* being still there
C29_Witness ==
  /\ cres.op = "getSession" /\ cres.kind = "null"
  /\ cres.reads = <<"session", "session_1">> /\ CountRead > 2
  /\ cres.decryptCalled
  /\ cres.decryptArg = jar["session"]
  /\ HasChunk(2)

\* the cookies hold no chunk and no count: each of N..N_9 and N_count is absent
\* or the empty string
NothingLeft(cookies) ==
  /\ \A i \in 0..9 : ChunkName(i) \notin DOMAIN cookies \/ cookies[ChunkName(i)] = <<>>
  /\ "session_count" \notin DOMAIN cookies \/ cookies["session_count"] = <<>>
\* the client holds the session of a persistSessionData that succeeded
HoldsValid == hist # <<>> /\ LastDone.op = "persistSessionData" /\ LastDone.kind = "ok"
\* the client applied a persistSessionData that failed, after one that succeeded
FailedOverValid ==
  /\ Len(hist) = 2
  /\ hist[1].op = "persistSessionData" /\ hist[1].kind = "ok"
  /\ hist[2].op = "persistSessionData" /\ hist[2].kind = "throw"

\* C33: when persistSessionData fails as oversized for a client that holds a
\* valid, previously persisted session, its response clears N..N_9 and
\* N_count: once the client has applied it none of them holds a value, and a
\* following getSession returns null, not the previous session.
C33_FailedWriteClears ==
  /\ (PersistEnded /\ cres.kind = "throw" /\ HoldsValid) =>
       /\ cres.error = TooLarge
       /\ \A i \in 0..9 : \E j \in 1..Len(resp) :
            resp[j].name = ChunkName(i) /\ resp[j].value = <<>>
       /\ \E j \in 1..Len(resp) : resp[j].name = "session_count" /\ resp[j].value = <<>>
       /\ NothingLeft(ApplyWrites(jar, resp))
  /\ FailedOverValid =>
       /\ NothingLeft(jar)
       /\ Got => cres.kind = "null"

\* with a key: a session of several chunks was persisted, the next persist
\* failed, and getSession, which would have returned the former, returns null
C33_Witness ==
  /\ FailedOverValid /\ Got /\ cres.kind = "null"
  /\ encryptionKey # Null
  /\ Len(Chunks(hist[1].data)) >= 2
  /\ hist[1].data._data # EmptyData
  /\ DecodeSession(encryptionKey, Concat(Chunks(hist[1].data)), NoResult).value = hist[1].data

\* with a key, getSession has run on cookies whose N_count names two chunks
\* or more, one of them absent or empty
Incomplete ==
  /\ encryptionKey # Null /\ Got /\ cres.kind # "throw"
  /\ CountRead >= 2
  /\ \E i \in 0..(CountRead - 1) : ~HasChunk(i)
\* the index of the first chunk that is absent or empty
FirstGap ==
  CHOOSE i \in 0..(CountRead - 1) : ~HasChunk(i) /\ \A j \in 0..(i - 1) : HasChunk(j)
\* the chunks before the first gap, concatenated
BeforeGap == Concat([i \in 1..FirstGap |-> jar[ChunkName(i - 1)]])
\* c has the header and the tag of a ciphertext made with the store's key
WholeCiphertext(c) ==
  Len(c) >= 2 /\ c[1] = CipherHeader(encryptionKey) /\ c[Len(c)] = CipherTag
\* the chunks the client holds are chunks, each under its index, of one
\* payload of as many chunks as N_count says
ChunksOfOne ==
  \E d \in CookieSessions :
    /\ Len(Chunks(d)) = CountRead
    /\ \A i \in 0..(CountRead - 1) : HasChunk(i) => jar[ChunkName(i)] = Chunks(d)[i + 1]

\* C35, as stated: with a key, if N_count names k >= 2 chunks and any cookie
\* among N..N_{k-1} is absent or empty, getSession returns null.
C35_Original == Incomplete => cres.kind = "null"

\* C35, amended: with a key, if N_count names k >= 2 chunks and any cookie
\* among N..N_{k-1} is absent or empty, getSession reads up to the first such
\* cookie and returns a session only if the chunks before it are by
\* themselves a whole ciphertext; it returns null whenever the chunks held are
\* chunks of one payload of k chunks.
C35_PartialIsNull ==
  Incomplete =>
    /\ cres.reads = [i \in 1..(FirstGap + 1) |-> ChunkName(i - 1)]
    /\ cres.kind \in {"null", "session"}
    /\ cres.kind = "session" =>
         /\ cres.decryptArg = BeforeGap
         /\ WholeCiphertext(BeforeGap)
    /\ ChunksOfOne => cres.kind = "null"

\* the second of the chunks persistSessionData wrote was lost: decrypt was
\* given the first, not a whole ciphertext, and getSession returned null
C35_Witness ==
  /\ Incomplete /\ ChunksOfOne
  /\ FirstGap = 1
  /\ cres.decryptCalled /\ cres.decryptArg = BeforeGap
  /\ ~WholeCiphertext(BeforeGap)
  /\ cres.kind = "null"

\* the key of session id i, written out
KeyOf(i) == "session:" \o i
\* the record the get of request r found had its delete flag set
FoundFlagged(r) ==
  /\ req[r].op = "getSessionById"
  /\ req[r].readMod.op # "none"
  /\ req[r].readMod.input._delete

\* C22: when the record getSessionById finds has its delete flag set, the
\* operation issues a backend delete of that key and returns null; it never
\* returns the data of a delete-flagged record.
C22_FlaggedRecordPurged ==
  \A r \in Requests :
    /\ FoundFlagged(r) =>
         /\ req[r].issued = <<Call("get", KeyOf(req[r].id)), Call("delete", KeyOf(req[r].id))>>
         /\ req[r].pc \in {"getDelete", "idle"}
         /\ req[r].pc = "idle" => req[r].kind = "null"
    /\ (Settled(req[r]) /\ req[r].op = "getSessionById" /\ req[r].kind = "session") =>
         (~req[r].value._delete /\ ~req[r].readMod.input._delete)

\* a delete-flagged record was found, its delete applied, and null returned
C22_Witness ==
  \E r \in Requests :
    /\ FoundFlagged(r) /\ Settled(req[r])
    /\ req[r].kind = "null" /\ req[r].failed = <<>>
    /\ Len(req[r].issued) = 2
    /\ KeyOf(req[r].id) \notin DOMAIN kv

\* C23: where the backend binding is at hand, persistSessionData(id, data)
\* with data.delete = true issues a backend delete of prefix+id and no put.
C23_DeleteFlagDeletes ==
  \A r \in Requests :
    req[r].op = "persistSessionData" =>
      /\ (req[r].pc # "idle" /\ req[r].arg._delete) =>
           /\ req[r].pc = "persistDelete"
           /\ req[r].issued = <<Call("delete", KeyOf(req[r].id))>>
           /\ req[r].put = NoPut
      /\ req[r].pc = "put" =>
           (~req[r].arg._delete /\ req[r].issued = <<Call("put", KeyOf(req[r].id))>>)
      /\ (Settled(req[r]) /\ req[r].kind = "ok") =>
           IF req[r].wrote = NoSession
           THEN req[r].issued = <<Call("delete", KeyOf(req[r].id))>>
           ELSE ~req[r].wrote._delete /\ req[r].issued = <<Call("put", KeyOf(req[r].id))>>

\* the delete of a persistSessionData that was passed a loaded session, marked
\* for deletion, is awaited while the record is still there
C23_Witness ==
  \E r \in Requests :
    /\ req[r].op = "persistSessionData" /\ req[r].pc = "persistDelete"
    /\ req[r].arg._delete /\ req[r].arg._data # EmptyData
    /\ req[r].issued = <<Call("delete", KeyOf(req[r].id))>>
    /\ KeyOf(req[r].id) \in DOMAIN kv

\* C24: every backend get, put and delete of an operation called with id i
\* uses the key prefix+i, and the record of the session no request was called
\* with is never written or deleted.
C24_OwnKeyOnly ==
  /\ \A r \in Requests :
       /\ \A j \in 1..Len(req[r].issued) : req[r].issued[j].key = KeyOf(req[r].id)
       /\ req[r].pc = "put" => req[r].put.key = KeyOf(req[r].id)
  /\ KeyOf("s2") \in DOMAIN kv
  /\ kv[KeyOf("s2")] = [value |-> JSON_stringify(OtherSession),
                        options |-> PutOptions(Expiration(OtherSession))]
  /\ DOMAIN kv \subseteq {KeyOf("s1"), KeyOf("s2")}

\* one request has read and deleted under its key, the other has put under it
C24_Witness ==
  \E r \in Requests : \E q \in Requests \ {r} :
    /\ Settled(req[r]) /\ Len(req[r].issued) = 2 /\ req[r].failed = <<>>
    /\ Settled(req[q]) /\ req[q].issued = <<Call("put", KeyOf("s1"))>> /\ req[q].kind = "ok"
    /\ DOMAIN kv = {KeyOf("s1"), KeyOf("s2")}

\* the session in the text request r hands to the backend's put
Written(r) == JSON_parse(req[r].put.value).value

\* C26, as stated: createSession and persistSessionData write the time of the
\* call as accessed when the input has none, and the input's accessed
\* unchanged when it has one.
C26_Original ==
  \A r \in Requests :
    req[r].pc = "put" =>
      Written(r)._accessed = IF req[r].arg._accessed = Null
                             THEN toISOString(req[r].at)
                             ELSE req[r].arg._accessed

\* C26, amended: createSession writes the time of the call as accessed when
\* the input has none and the input's accessed unchanged when it has one;
\* persistSessionData writes the time of the call as accessed in both cases.
C26_AccessedOnWrite ==
  \A r \in Requests :
    req[r].pc = "put" =>
      Written(r)._accessed = IF req[r].op = "createSession" /\ req[r].arg._accessed # Null
                             THEN req[r].arg._accessed
                             ELSE toISOString(req[r].at)

\* the input has an accessed that is not the time of the call
StaleAccessed(r) ==
  req[r].arg._accessed # Null /\ req[r].arg._accessed # toISOString(req[r].at)

\* a createSession and a persistSessionData are both suspended at their put,
\* each passed an accessed of an earlier time
C26_Witness ==
  \E r \in Requests : \E q \in Requests \ {r} :
    /\ req[r].pc = "put" /\ req[r].op = "createSession" /\ StaleAccessed(r)
    /\ Written(r)._accessed = req[r].arg._accessed
    /\ req[q].pc = "put" /\ req[q].op = "persistSessionData" /\ StaleAccessed(q)
    /\ Written(q)._accessed = toISOString(req[q].at)

\* C27: persistSessionData with delete = false hands the backend a record
\* whose accessed is the time of the persist call, whatever accessed the
\* input carried.
C27_PersistStampsAccessed ==
  \A r \in Requests :
    (req[r].pc = "put" /\ req[r].op = "persistSessionData") =>
      /\ JSON_parse(req[r].put.value).ok
      /\ Written(r)._accessed = toISOString(req[r].at)
      /\ ButAccessed(Written(r)) = ButAccessed(req[r].arg)

\* the input carried the accessed of an earlier load
C27_Witness ==
  \E r \in Requests :
    /\ req[r].pc = "put" /\ req[r].op = "persistSessionData"
    /\ StaleAccessed(r)
    /\ req[r].at = MaxTicks * TimeStep
    /\ Written(r)._accessed = toISOString(MaxTicks * TimeStep)

\* C28: getSessionById on a found record without delete flag returns the
\* stored data with accessed replaced by the time of the load, and with
\* data, expire and delete as stored.
C28_LoadRefreshesAccessed ==
  \A r \in Requests :
    (Settled(req[r]) /\ req[r].op = "getSessionById" /\ req[r].kind = "session") =>
      /\ req[r].value._accessed = toISOString(req[r].at)
      /\ req[r].readMod.op # "none"
      /\ ButAccessed(req[r].value) = req[r].readMod.input

\* the record read is still the backend's, with the accessed of an earlier time
C28_Witness ==
  \E r \in Requests :
    /\ Settled(req[r]) /\ req[r].op = "getSessionById" /\ req[r].kind = "session"
    /\ KeyOf(req[r].id) \in DOMAIN kv
    /\ lastMod[KeyOf(req[r].id)] = req[r].readMod
    /\ LET record == JSON_parse(kv[KeyOf(req[r].id)].value).value
       IN /\ record._accessed # req[r].value._accessed
          /\ ButAccessed(record) = ButAccessed(req[r].value)
          /\ record._expire # Null

\* getSessionById of request r issues no put, and a delete only for a flagged
\* record; having returned a session it has issued its get alone
LoadIssuesNoWrite(r) ==
  req[r].op = "getSessionById" =>
    /\ req[r].pc \in {"idle", "get", "getDelete"}
    /\ req[r].put = NoPut
    /\ \A j \in 1..Len(req[r].issued) :
         /\ req[r].issued[j].call # "put"
         /\ req[r].issued[j].call = "delete" => FoundFlagged(r)
    /\ (Settled(req[r]) /\ req[r].kind = "session") =>
         req[r].issued = <<Call("get", KeyOf(req[r].id))>>
\* the step in which the get of request r returns the record found
LoadReturns(r) ==
  /\ req[r].op = "getSessionById" /\ req[r].pc = "get"
  /\ req'[r].pc = "idle" /\ req'[r].kind = "session"

\* C34: getSessionById on a found record whose delete flag is false issues no
\* put and no delete, and the backend's record, its stored accessed and its
\* expiry included, is after the load what it was before.
C34_LoadWritesNothing ==
  /\ [](\A r \in Requests : LoadIssuesNoWrite(r))
  /\ [][\A r \in Requests : LoadReturns(r) => (kv' = kv /\ lastMod' = lastMod)]_vars

\* a session was loaded at the latest time of the clock from a record put at
\* an earlier one, and the backend holds that record, accessed and expiry, still
C34_Witness ==
  \E r \in Requests :
    /\ Settled(req[r]) /\ req[r].op = "getSessionById" /\ req[r].kind = "session"
    /\ req[r].issued = <<Call("get", KeyOf(req[r].id))>>
    /\ req[r].at = MaxTicks * TimeStep
    /\ \A q \in Requests \ {r} : req[q].op = "none"
    /\ LET rec == kv[KeyOf(req[r].id)]
           was == JSON_parse(rec.value).value
       IN /\ was._accessed = toISOString(0)
          /\ rec.options = PutOptions(Expiration(was))
          /\ rec.options.expiration # {}

\* C30, as stated: no record of the backend has its delete flag set, and no
\* operation, createSession included, puts a session whose delete flag is set.
C30_NoFlaggedRecord ==
  /\ \A k \in DOMAIN kv : ~JSON_parse(kv[k].value).value._delete
  /\ \A r \in Requests : req[r].pc = "put" => ~req[r].data._delete

(***************************************************************************)
(* Properties of the Session.                                              *)
(***************************************************************************)
\* the values of the entries of a session
ValuesOf(c) == {c._data[k].value : k \in DOMAIN c._data}
\* the flashed value has been returned by a get
Consumed(v) == flashes[v].st \in {"read", "readPersisted", "reloaded", "absentSeen"}

\* C7: a get of a key whose entry is a flash entry returns the flashed value
\* and removes the entry, marking the session changed; once a get has
\* returned a flashed value, neither the session of a later request nor the
\* store holds it after the persist, and no second get ever returns it.
C7_FlashReadOnce ==
  /\ \A v \in FlashValues : flashes[v].st # "twice"
  /\ (got.called /\ got.flash) =>
        /\ got.result = Present(got.value)
        /\ got.key \notin DOMAIN cache._data
        /\ dirty
  /\ \A v \in FlashValues :
        Consumed(v) =>
          /\ v \notin ValuesOf(cache)
          /\ phase = "between" => v \notin ValuesOf(LoadOrCreate(stored))

\* a flashed value was returned by a get, and after the persist and the next
\* load a get of its key found nothing
C7_Witness == \E v \in FlashValues : flashes[v].st = "absentSeen"


====
